---- MODULE Spec2Model ----
(***************************************************************************)
(* Burden-based eligibility scoring (EligibilityScoreTool) and the         *)
(* dual-analysis comparator (AnalysisComparator) of the subsidy platform.  *)
(*                                                                         *)
(* Number representation (Python floats are modelled as exact decimals):   *)
(*   scores of the scoring tool        thousandths of a point (Pts)        *)
(*   adult equivalent                  tenths                              *)
(*   incomes                           whole RM                            *)
(*   burdens of the median table       millionths                          *)
(*   burden ratio                      a fraction [num, den], den > 0      *)
(*   comparator scores, confidences    hundredths                          *)
(* Python values that may be absent, None or of another type are records   *)
(* [k, s, n, b]: k is the kind, s/n/b the string, number or boolean.       *)
(***************************************************************************)
EXTENDS Integers, Naturals, Sequences, FiniteSets, TLC

VARIABLES
    state_income_data,        \* EligibilityScoreTool.state_income_data
    scoring_stats,            \* EligibilityScoreTool.scoring_stats
    applicant_data,           \* argument of EligibilityScoreTool.forward
    result,                   \* dict returned by the last forward call
    agreement_threshold,      \* AnalysisComparator.agreement_threshold
    low_confidence_threshold, \* AnalysisComparator.low_confidence_threshold
    rag_result,               \* argument of AnalysisComparator.compare
    formula_result,           \* argument of AnalysisComparator.compare
    comparison,               \* ComparisonResult returned by the last compare
    burden_ratios,            \* two arguments of _calculate_raw_burden_score
    raw_burden_scores,        \* the scores returned for them
    analysis,                 \* outcome of the last FormulaAnalysisService.analyze
    income_data,              \* CitizenDataValidationTool.income_data
    validation_stats,         \* CitizenDataValidationTool.validation_stats
    citizen_data,             \* arguments of CitizenDataValidationTool.forward
    validation_type,
    strict_mode,
    validation,               \* dict returned by the last validation
    guard_inputs,             \* numbers given to steps 3 to 7 of the burden score
    guard_outputs,            \* the burdens and the score computed from them
    history,                  \* the calls of forward so far: record and result
    threads, \* concurrent forward calls on the one tool: position and locals
    agent_result,  \* what CitizenAnalysisAgent.run returned to RagAnalysisService.analyze
    rag_citizen_data,  \* argument of RagAnalysisService.analyze
    structured_result, \* RagAnalysisResult returned by analyze
    flow,  \* EligibilityState of the workflow run, the node to run next and the nodes run
    returned  \* ScoringResult returned by EligibilityWorkflow.process_citizen

vars == <<state_income_data, scoring_stats, applicant_data, result,
          agreement_threshold, low_confidence_threshold, rag_result,
          formula_result, comparison, burden_ratios, raw_burden_scores,
          analysis, income_data, validation_stats, citizen_data,
          validation_type, strict_mode, validation, guard_inputs,
          guard_outputs, history,
          threads,
          agent_result, rag_citizen_data, structured_result,
          flow, returned>>

engine_vars == <<state_income_data, scoring_stats, applicant_data, result>>

comparator_vars == <<agreement_threshold, low_confidence_threshold, rag_result,
                     formula_result, comparison>>

burden_vars == <<burden_ratios, raw_burden_scores>>

formula_vars == <<analysis>>

guard_vars == <<guard_inputs, guard_outputs>>

workflow_vars == <<flow, returned>>

rag_vars == <<agent_result, rag_citizen_data, structured_result>>

thread_vars == <<threads>>

history_vars == <<history>>

validator_vars == <<income_data, validation_stats, citizen_data, validation_type,
                    strict_mode, validation>>

(***************************************************************************)
(* Bounds of the model.                                                    *)
(***************************************************************************)
MaxHousehold == 3

MaxChildren == 2

MaxCalls == 2

\* Calls of forward on one tool in the specification of call histories
MaxHistory == 3

\* Largest burden ratio tried on _calculate_raw_burden_score, in hundredths
MaxRatio == 160

(***************************************************************************)
(* Python values.                                                          *)
(***************************************************************************)
Absent == [k |-> "absent", s |-> "", n |-> 0, b |-> FALSE]

None == [k |-> "none", s |-> "", n |-> 0, b |-> FALSE]

PyStr(x) == [k |-> "str", s |-> x, n |-> 0, b |-> FALSE]

PyNum(x) == [k |-> "num", s |-> "", n |-> x, b |-> FALSE]

PyBool(x) == [k |-> "bool", s |-> "", n |-> 0, b |-> x]

\* dict.get(key, default) on a record of Python values: the default only
\* replaces an absent key, a key holding None yields None.
Get(d, key, default) == IF d[key].k = "absent" THEN default ELSE d[key]

\* table.get(key, default) for a table keyed by strings and any Python key.
Lookup(table, key, default) ==
    IF key.k = "str" /\ key.s \in DOMAIN table THEN table[key.s] ELSE default

\* key in table
Has(table, key) == key.k = "str" /\ key.s \in DOMAIN table

\* Python truthiness of a value
Truthy(v) ==
    CASE v.k = "bool" -> v.b
      [] v.k = "num" -> v.n # 0
      [] v.k = "str" -> v.s # ""
      [] OTHER -> FALSE

\* v is True
IsTrue(v) == v.k = "bool" /\ v.b

Max(a, b) == IF a >= b THEN a ELSE b

Min(a, b) == IF a <= b THEN a ELSE b

Pts(x) == x * 1000

\* round(x, 2) of a non-negative score held in thousandths (ties to even)
Round2(x) ==
    LET q == x \div 10
        r == x % 10
    IN  IF r < 5 THEN q * 10
        ELSE IF r > 5 THEN (q + 1) * 10
        ELSE IF q % 2 = 0 THEN q * 10 ELSE (q + 1) * 10

(***************************************************************************)
(* EligibilityScoreTool: the tables set by __init__.                       *)
(***************************************************************************)
national_thresholds ==
    [B1 |-> 2560, B2 |-> 3439, B3 |-> 4309, B4 |-> 5249,
     M1 |-> 6339, M2 |-> 7689, M3 |-> 9449, M4 |-> 11819,
     T1 |-> 15869, T2 |-> 20000]

state_median_burdens ==
    ("Johor" :> 403) @@ ("Kedah" :> 637) @@ ("Kelantan" :> 772) @@
    ("Melaka" :> 448) @@ ("Negeri Sembilan" :> 530) @@ ("Pahang" :> 593) @@
    ("Perak" :> 620) @@ ("Perlis" :> 600) @@ ("Pulau Pinang" :> 430) @@
    ("Sabah" :> 605) @@ ("Sarawak" :> 556) @@ ("Selangor" :> 284) @@
    ("Terengganu" :> 483) @@ ("W.P. Kuala Lumpur" :> 275) @@
    ("W.P. Labuan" :> 410) @@ ("W.P. Putrajaya" :> 284)

national_median_burden == 507

OTHER_ADULT_WEIGHT == 5

CHILD_WEIGHT == 3

base_scores ==
    ("B40" :> 60) @@ ("M40-M1" :> 40) @@ ("M40-M2" :> 20) @@ ("T20" :> 0)

bracket_to_class ==
    [B1 |-> "B40", B2 |-> "B40", B3 |-> "B40", B4 |-> "B40",
     M1 |-> "M40-M1", M2 |-> "M40-M1", M3 |-> "M40-M2", M4 |-> "M40-M2",
     T1 |-> "T20", T2 |-> "T20"]

required_fields ==
    <<"state", "income_bracket", "household_size", "number_of_children">>

state_name_mapping ==
    ("Kuala Lumpur" :> "W.P. Kuala Lumpur") @@ ("Labuan" :> "W.P. Labuan") @@
    ("Putrajaya" :> "W.P. Putrajaya")

ZeroStats ==
    [total_scores_calculated |-> 0, csv_lookups_successful |-> 0,
     national_fallback_used |-> 0, missing_data_cases |-> 0]

(***************************************************************************)
(* _load_csv_data: the table read from the reference file.  The file is    *)
(* external: it is missing, or it is a sequence of rows, each with a       *)
(* state, an income group and an income string.  A cell holds whatever     *)
(* number its row gives.                                                   *)
(***************************************************************************)
EmptyTable == [s \in {} |-> [g \in {} |-> 0]]

MissingFile == [k |-> "missing", rows |-> <<>>]

Row(state, income_group, income) ==
    [state |-> state, income_group |-> income_group, income |-> income]

\* A sparse file: Kelantan has a row with an empty income only, Perlis B4
\* is 0 and Perlis M4 negative; the Perlis cells of 2000 make every raw
\* burden score occur in every tier.
SampleFile ==
    [k |-> "file",
     rows |-> <<Row("Perlis", "B1", PyNum(2698)), Row("Perlis", "B2", PyNum(2000)),
                Row("Perlis", "B3", PyNum(4480)), Row("Perlis", "B4", PyNum(0)),
                Row("Perlis", "M1", PyNum(6376)), Row("Perlis", "M2", PyNum(2000)),
                Row("Perlis", "M3", PyNum(2000)), Row("Perlis", "M4", PyNum(-100)),
                Row("Perlis", "T1", PyNum(2000)),
                Row("W.P. Kuala Lumpur", "B1", PyNum(5076)),
                Row("W.P. Kuala Lumpur", "B2", PyNum(6550)),
                Row("Kelantan", "B4", PyStr(""))>>]

\* The same rows followed by one whose income is no number.
MalformedFile ==
    [k |-> "file",
     rows |-> Append(SampleFile.rows, Row("Johor", "B1", PyStr("n/a")))]

ReferenceFiles == {MissingFile, SampleFile, MalformedFile}

\* float(row['income']) raises ValueError on a non-empty string that is no
\* number.
RowRaises(row) == row.income.k = "str" /\ row.income.s # ""

\* The loop over the rows: a state gets an entry with its first row, a cell
\* is set by each row whose income is not empty.
RECURSIVE LoadRows(_, _)
LoadRows(rows, data) ==
    IF rows = <<>> THEN data
    ELSE LET row == Head(rows)
             known == IF row.state \in DOMAIN data
                      THEN data ELSE data @@ (row.state :> [g \in {} |-> 0])
             cells == known[row.state]
             set == IF row.income.k = "num"
                    THEN (row.income_group :> row.income.n) @@ cells
                    ELSE cells
         IN  LoadRows(Tail(rows), (row.state :> set) @@ known)

\* A missing file, or any exception while reading, leaves the empty table.
_load_csv_data(file) ==
    IF file.k = "missing" THEN EmptyTable
    ELSE IF \E i \in 1..Len(file.rows) : RowRaises(file.rows[i]) THEN EmptyTable
    ELSE LoadRows(file.rows, EmptyTable)

SampleTable == _load_csv_data(SampleFile)

LoadedTables == {_load_csv_data(file) : file \in ReferenceFiles}

(***************************************************************************)
(* EligibilityScoreTool: the scoring helpers.                              *)
(***************************************************************************)
\* _check_missing_fields: the required fields absent or None, in the order
\* of required_fields.
_check_missing_fields(data) ==
    SelectSeq(required_fields, LAMBDA f : data[f].k \in {"absent", "none"})

\* The branch _get_equivalent_income takes: "csv", "national" or "unknown".
IncomeSource(state, income_bracket) ==
    LET csv_state ==
            IF Has(state_name_mapping, state)
            THEN PyStr(state_name_mapping[state.s]) ELSE state
    IN  IF Has(state_income_data, csv_state)
           /\ Has(state_income_data[csv_state.s], income_bracket)
        THEN "csv"
        ELSE IF Has(national_thresholds, income_bracket) THEN "national"
        ELSE "unknown"

\* Mutant: a cell miss goes straight to the constant, skipping the national
\* thresholds.
_get_equivalent_income_no_national(state, income_bracket) ==
    LET csv_state ==
            IF Has(state_name_mapping, state)
            THEN PyStr(state_name_mapping[state.s]) ELSE state
        source == IncomeSource(state, income_bracket)
    IN  CASE source = "csv" -> state_income_data[csv_state.s][income_bracket.s]
          [] OTHER -> 5000

_get_equivalent_income(state, income_bracket) ==
    LET csv_state ==
            IF Has(state_name_mapping, state)
            THEN PyStr(state_name_mapping[state.s]) ELSE state
        source == IncomeSource(state, income_bracket)
    IN  CASE source = "csv" -> state_income_data[csv_state.s][income_bracket.s]
          [] source = "national" -> national_thresholds[income_bracket.s]
          [] OTHER -> 5000

\* Mutant: the median burden is looked up under the name as given.
_get_state_median_burden_unmapped(state) ==
    Lookup(state_median_burdens, state, national_median_burden)

_get_state_median_burden(state) ==
    LET mapped_state ==
            IF Has(state_name_mapping, state)
            THEN PyStr(state_name_mapping[state.s]) ELSE state
    IN  Lookup(state_median_burdens, mapped_state, national_median_burden)

\* The burden ratio is a fraction; ratio <= p / q
RatioLeq(ratio, p, q) == ratio.num * q <= p * ratio.den

\* Mutant: each boundary value falls into the upper bucket.
_calculate_raw_burden_score_strict(burden_ratio) ==
    IF burden_ratio.num * 10 < 10 * burden_ratio.den THEN 50
    ELSE IF burden_ratio.num * 10 < 12 * burden_ratio.den THEN 70
    ELSE IF burden_ratio.num * 10 < 15 * burden_ratio.den THEN 90
    ELSE 100

_calculate_raw_burden_score(burden_ratio) ==
    IF RatioLeq(burden_ratio, 10, 10) THEN 50
    ELSE IF RatioLeq(burden_ratio, 12, 10) THEN 70
    ELSE IF RatioLeq(burden_ratio, 15, 10) THEN 90
    ELSE 100

\* Mutant: an unknown bracket defaults to the highest-priority tier.
_get_base_score_default_b40(income_bracket) ==
    LET eligibility_class == Lookup(bracket_to_class, income_bracket, "B40")
    IN  IF eligibility_class \in DOMAIN base_scores
        THEN base_scores[eligibility_class] ELSE 0

_get_base_score(income_bracket) ==
    LET eligibility_class == Lookup(bracket_to_class, income_bracket, "T20")
    IN  IF eligibility_class \in DOMAIN base_scores
        THEN base_scores[eligibility_class] ELSE 0

\* Mutant: the cap at 100 is dropped.
_calculate_final_score_uncapped(base_score, burden_score, doc_score, disability_score) ==
    Pts(base_score) + (Pts(burden_score) * 75) \div 100
        + (Pts(doc_score) * 25) \div 100

\* Mutant: the burden component weighted 55% as in the superseded formula.
_calculate_final_score_old_weight(base_score, burden_score, doc_score, disability_score) ==
    Min(Pts(100), Pts(base_score) + (Pts(burden_score) * 55) \div 100
                      + (Pts(doc_score) * 25) \div 100)

\* Scores in thousandths: base_score and the two component scores come in
\* points.
_calculate_final_score(base_score, burden_score, doc_score, disability_score) ==
    LET weighted_burden == (Pts(burden_score) * 75) \div 100
        weighted_documentation == (Pts(doc_score) * 25) \div 100
        component_total == weighted_burden + weighted_documentation
    IN  Min(Pts(100), Pts(base_score) + component_total)

\* Mutant: one valid flag is enough.
_calculate_documentation_score_either(data) ==
    LET is_signature_valid == Get(data, "is_signature_valid", None)
        is_data_authentic == Get(data, "is_data_authentic", None)
    IN  IF IsTrue(is_signature_valid) \/ IsTrue(is_data_authentic)
        THEN 100 ELSE 0

_calculate_documentation_score(data) ==
    LET is_signature_valid == Get(data, "is_signature_valid", None)
        is_data_authentic == Get(data, "is_data_authentic", None)
    IN  IF IsTrue(is_signature_valid) /\ IsTrue(is_data_authentic)
        THEN 100 ELSE 0

_calculate_disability_score(data) ==
    IF IsTrue(Get(data, "disability_status", PyBool(FALSE))) THEN 100 ELSE 0

\* Mutant: the number of adults is not floored at 1.
AdultEquivalent_no_floor(household_size, number_of_children) ==
    LET adults == household_size - number_of_children
    IN  10 + OTHER_ADULT_WEIGHT * (adults - 1) + CHILD_WEIGHT * number_of_children

\* Adult Equivalent in tenths, from the two integers.
AdultEquivalent(household_size, number_of_children) ==
    LET adults == Max(1, household_size - number_of_children)
    IN  10 + OTHER_ADULT_WEIGHT * (adults - 1) + CHILD_WEIGHT * number_of_children

\* applicant_burden = adult_equivalent / equivalent_income if
\* equivalent_income > 0 else 0, held in tenths per RM
ApplicantBurden(adult_equivalent, equivalent_income) ==
    IF equivalent_income > 0
    THEN [num |-> adult_equivalent, den |-> equivalent_income]
    ELSE [num |-> 0, den |-> 1]

\* Mutant: the ratio is computed whatever the reference burden is.
BurdenRatio_unguarded(applicant_burden, state_median_burden) ==
    [num |-> applicant_burden.num * 100000,
     den |-> applicant_burden.den * state_median_burden]

\* burden_ratio = applicant_burden / state_median_burden if
\* state_median_burden > 0 else 1.0
BurdenRatio(applicant_burden, state_median_burden) ==
    IF state_median_burden > 0
    THEN [num |-> applicant_burden.num * 100000,
          den |-> applicant_burden.den * state_median_burden]
    ELSE [num |-> 1, den |-> 1]

\* household_size - number_of_children raises TypeError unless both are
\* numbers.
BurdenRaises(data) ==
    \/ Get(data, "household_size", PyNum(1)).k # "num"
    \/ Get(data, "number_of_children", PyNum(0)).k # "num"

\* _calculate_burden_score on data for which it does not raise: the
\* BurdenCalculationResult.
_calculate_burden_score(data) ==
    LET state == Get(data, "state", PyStr(""))
        income_bracket == Get(data, "income_bracket", PyStr(""))
        household_size == Get(data, "household_size", PyNum(1)).n
        number_of_children == Get(data, "number_of_children", PyNum(0)).n
        equivalent_income == _get_equivalent_income(state, income_bracket)
        adult_equivalent == AdultEquivalent(household_size, number_of_children)
        applicant_burden == ApplicantBurden(adult_equivalent, equivalent_income)
        state_median_burden == _get_state_median_burden(state)
        burden_ratio == BurdenRatio(applicant_burden, state_median_burden)
        disability_status == Get(data, "disability_status", PyBool(FALSE))
        raw_burden_score == _calculate_raw_burden_score(burden_ratio)
        base_score == _get_base_score(income_bracket)
        doc_score == _calculate_documentation_score(data)
        disability_score == _calculate_disability_score(data)
        common ==
            [equivalent_income |-> equivalent_income,
             adult_equivalent |-> adult_equivalent,
             applicant_burden |-> applicant_burden,
             reference_burden |-> state_median_burden,
             burden_ratio |-> burden_ratio,
             \* confidence=1.0 on both paths
             confidence |-> 100]
    IN  IF Truthy(disability_status)
        THEN common @@ [tier_range |-> "Disability Auto-Qualification",
                        score |-> Pts(100)]
        ELSE common @@ [tier_range |-> "Base, Raw burden",
                        score |-> _calculate_final_score(
                                     base_score, raw_burden_score,
                                     doc_score, disability_score)]

\* Mutant: the call is counted at the end of the try block, so a call that
\* raises inside it is not counted.
StatsAfter_counted_last(stats, data) ==
    LET source == IncomeSource(Get(data, "state", PyStr("")),
                               Get(data, "income_bracket", PyStr("")))
        bump(field, cond) == IF cond THEN stats[field] + 1 ELSE stats[field]
    IN  [total_scores_calculated |->
             bump("total_scores_calculated", ~BurdenRaises(data)),
         csv_lookups_successful |-> bump("csv_lookups_successful", source = "csv"),
         national_fallback_used |-> bump("national_fallback_used", source = "national"),
         missing_data_cases |->
             bump("missing_data_cases", _check_missing_fields(data) # <<>>)]

\* The statistics after a forward call on data: forward counts the call,
\* _check_missing_fields counts a record with missing fields and
\* _get_equivalent_income counts its branch; all three run before anything
\* that can raise.
StatsAfter(stats, data) ==
    LET source == IncomeSource(Get(data, "state", PyStr("")),
                               Get(data, "income_bracket", PyStr("")))
        bump(field, cond) == IF cond THEN stats[field] + 1 ELSE stats[field]
    IN  [total_scores_calculated |-> stats.total_scores_calculated + 1,
         csv_lookups_successful |-> bump("csv_lookups_successful", source = "csv"),
         national_fallback_used |-> bump("national_fallback_used", source = "national"),
         missing_data_cases |->
             bump("missing_data_cases", _check_missing_fields(data) # <<>>)]

\* The audit trail without its two clock readings (timestamp and
\* execution_time_seconds).
_create_audit_trail(data, burden_result, missing_fields, stats) ==
    [tool_version |-> "1.0.0",
     scoring_method |-> "burden_based_equivalent_income",
     data_characteristics |->
         [state |-> Get(data, "state", PyStr("unknown")),
          income_bracket |-> Get(data, "income_bracket", PyStr("unknown")),
          household_size |-> Get(data, "household_size", PyNum(0)),
          has_disability |-> Get(data, "disability_status", PyBool(FALSE)),
          documentation_complete |->
              /\ IsTrue(Get(data, "is_signature_valid", None))
              /\ IsTrue(Get(data, "is_data_authentic", None))],
     calculation_details |->
         [equivalent_income |-> burden_result.equivalent_income,
          adult_equivalent |-> burden_result.adult_equivalent,
          burden_ratio |-> burden_result.burden_ratio,
          tier_range |-> burden_result.tier_range,
          fyp_approach |->
              [base_score_by_tier |-> TRUE, burden_adjustment |-> TRUE,
               state_median_comparison |-> TRUE]],
     scoring_stats |-> stats,
     missing_fields |-> missing_fields]

\* get_scoring_statistics: the counters and the three rates, each a fraction
get_scoring_statistics(stats) ==
    LET calls == Max(1, stats.total_scores_calculated)
    IN  [scoring_stats |-> stats,
         csv_success_rate |-> [num |-> stats.csv_lookups_successful, den |-> calls],
         fallback_usage_rate |-> [num |-> stats.national_fallback_used, den |-> calls],
         missing_data_rate |-> [num |-> stats.missing_data_cases, den |-> calls]]

_create_error_response(error_message) ==
    [final_score |-> 0,
     breakdown |->
         [base_score |-> 0, raw_burden_score |-> 0, documentation_score |-> 0,
          disability_score |-> 0, weighted_burden_75pct |-> 0,
          weighted_documentation_25pct |-> 0, component_total |-> 0],
     fyp_formula |-> "Error occurred",
     equivalent_income |-> 0,
     adult_equivalent |-> 10,
     burden_ratio |-> [num |-> 0, den |-> 1],
     state_median_burden |-> 0,
     missing_fields |-> <<"error_occurred">>,
     audit_trail |-> [tool_version |-> "1.0.0", error |-> error_message],
     error |-> error_message]

\* Mutant: the list of missing fields is shared between calls, so a call
\* after one that missed a field reports a stale entry.
forward_shared_missing(data, stats) ==
    IF BurdenRaises(data)
    THEN _create_error_response("TypeError")
    ELSE
    LET own == _check_missing_fields(data)
        missing_fields ==
            IF own = <<>> /\ stats.missing_data_cases > 0 THEN <<"state">> ELSE own
        burden_result == _calculate_burden_score(data)
    IN  [equivalent_income |-> burden_result.equivalent_income,
         adult_equivalent |-> burden_result.adult_equivalent,
         burden_ratio |-> burden_result.burden_ratio,
         state_median_burden |-> burden_result.reference_burden,
         missing_fields |-> missing_fields,
         audit_trail |->
             _create_audit_trail(data, burden_result, missing_fields, stats),
         final_score |-> Round2(burden_result.score),
         breakdown |->
             [base_score |->
                  Pts(_get_base_score(Get(data, "income_bracket", PyStr(""))))],
         fyp_formula |-> "Final = min(100, base + component_total)"]

\* The dict forward returns for data, stats being the statistics after the
\* call's own updates.
forward(data, stats) ==
    IF BurdenRaises(data)
    THEN _create_error_response("TypeError")
    ELSE
    LET missing_fields == _check_missing_fields(data)
        burden_result == _calculate_burden_score(data)
        final_score == burden_result.score
        documentation_score == _calculate_documentation_score(data)
        disability_score == _calculate_disability_score(data)
        base_score == _get_base_score(Get(data, "income_bracket", PyStr("")))
        raw_burden_score == _calculate_raw_burden_score(burden_result.burden_ratio)
        weighted_burden == (Pts(raw_burden_score) * 75) \div 100
        weighted_documentation == (Pts(documentation_score) * 25) \div 100
        component_total == weighted_burden + weighted_documentation
        audit_trail ==
            _create_audit_trail(data, burden_result, missing_fields, stats)
        common ==
            [equivalent_income |-> burden_result.equivalent_income,
             adult_equivalent |-> burden_result.adult_equivalent,
             burden_ratio |-> burden_result.burden_ratio,
             state_median_burden |-> burden_result.reference_burden,
             missing_fields |-> missing_fields,
             audit_trail |-> audit_trail]
    IN  IF burden_result.tier_range = "Disability Auto-Qualification"
        THEN common @@
             [final_score |-> Pts(100),
              breakdown |->
                  [disability_auto_qualify |-> TRUE,
                   base_score |-> Pts(base_score),
                   explanation |->
                       "Automatic 100% qualification due to disability status"],
              fyp_formula |-> "Disability Auto-Qualification: 100 points"]
        ELSE common @@
             [final_score |-> Round2(final_score),
              breakdown |->
                  [base_score |-> Pts(base_score),
                   raw_burden_score |-> Pts(raw_burden_score),
                   documentation_score |-> Pts(documentation_score),
                   disability_score |-> Pts(disability_score),
                   weighted_burden_75pct |-> weighted_burden,
                   weighted_documentation_25pct |-> weighted_documentation,
                   component_total |-> component_total],
              fyp_formula |-> "Final = min(100, base + component_total)"]

(***************************************************************************)
(* The applicant records scored.                                           *)
(***************************************************************************)
StateInputs ==
    {PyStr("Perlis"), PyStr("Kuala Lumpur"), PyStr("W.P. Kuala Lumpur"),
     PyStr("Atlantis"), Absent, None}

BracketInputs ==
    {PyStr(g) : g \in DOMAIN national_thresholds} \cup {PyStr("X9"), Absent, None}

HouseholdInputs ==
    {PyNum(n) : n \in 1..MaxHousehold} \cup {PyStr("4"), Absent, None}

ChildrenInputs == {PyNum(n) : n \in 0..MaxChildren} \cup {Absent, None}

FlagInputs == {PyBool(TRUE), PyBool(FALSE), Absent, None}

ApplicantRecords ==
    [state : StateInputs,
     income_bracket : BracketInputs,
     household_size : HouseholdInputs,
     number_of_children : ChildrenInputs,
     disability_status : FlagInputs,
     is_signature_valid : FlagInputs,
     is_data_authentic : {PyBool(TRUE), PyBool(FALSE), Absent}]

NoResult == [final_score |-> -1]

(***************************************************************************)
(* AnalysisComparator.  Scores, thresholds and confidences in hundredths.  *)
(***************************************************************************)
\* Mutant: the sign of a difference is kept.
Abs_signed(x) == x

Abs(x) == IF x < 0 THEN -x ELSE x

\* Rounding to one decimal (round(x, 1) and the .1f format) of a value held
\* in thousandths, ties to even; the result is in hundredths.
Round1(x) ==
    LET a == Abs(x)
        q == a \div 100
        r == a % 100
        m == IF r < 50 THEN q
             ELSE IF r > 50 THEN q + 1
             ELSE IF q % 2 = 0 THEN q ELSE q + 1
    IN  IF x < 0 THEN -(m * 10) ELSE m * 10

\* Mutant: a difference equal to the threshold disagrees.
Agreement_strict(score_difference) == score_difference < agreement_threshold

\* agreement = score_difference <= self.agreement_threshold
Agreement(score_difference) == score_difference <= agreement_threshold

\* Mutant: the consensus reports the formula score instead of the average.
_generate_recommendation_formula(rag_score, formula_score, rag_confidence, agreement) ==
    IF rag_confidence < low_confidence_threshold
    THEN [form |-> "Formula Score",
          formula_score |-> Round1(formula_score * 10),
          rag_confidence |-> rag_confidence]
    ELSE IF agreement
    THEN [form |-> "Consensus",
          avg_score |-> Round1(formula_score * 10),
          agreement_threshold |-> agreement_threshold]
    ELSE [form |-> "Disagreement",
          rag_score |-> Round1(rag_score * 10),
          formula_score |-> Round1(formula_score * 10),
          delta |-> Round1(Abs(rag_score - formula_score) * 10)]

_generate_recommendation(rag_score, formula_score, rag_confidence, agreement) ==
    IF rag_confidence < low_confidence_threshold
    THEN [form |-> "Formula Score",
          formula_score |-> Round1(formula_score * 10),
          rag_confidence |-> rag_confidence]
    ELSE IF agreement
    THEN [form |-> "Consensus",
          avg_score |-> Round1((rag_score + formula_score) * 5),
          agreement_threshold |-> agreement_threshold]
    ELSE [form |-> "Disagreement",
          rag_score |-> Round1(rag_score * 10),
          formula_score |-> Round1(formula_score * 10),
          delta |-> Round1(Abs(rag_score - formula_score) * 10)]

\* Mutant: a difference of exactly 15.0 is flagged too.
_generate_comment_inclusive(score_difference, rag_confidence, agreement) ==
    IF rag_confidence < low_confidence_threshold
    THEN [form |-> "Low RAG confidence", rag_confidence |-> rag_confidence]
    ELSE IF agreement
    THEN [form |-> "Both analysis methods agree",
          agreement_threshold |-> agreement_threshold]
    ELSE IF score_difference >= 1500
    THEN [form |-> "Significant score disagreement, may require manual review",
          delta |-> Round1(score_difference * 10)]
    ELSE [form |-> "Moderate score disagreement",
          delta |-> Round1(score_difference * 10)]

_generate_comment(score_difference, rag_confidence, agreement) ==
    IF rag_confidence < low_confidence_threshold
    THEN [form |-> "Low RAG confidence", rag_confidence |-> rag_confidence]
    ELSE IF agreement
    THEN [form |-> "Both analysis methods agree",
          agreement_threshold |-> agreement_threshold]
    ELSE IF score_difference > 1500
    THEN [form |-> "Significant score disagreement, may require manual review",
          delta |-> Round1(score_difference * 10)]
    ELSE [form |-> "Moderate score disagreement",
          delta |-> Round1(score_difference * 10)]

_create_error_result(error_message) ==
    [agreement |-> FALSE,
     score_difference |-> 0,
     rag_confidence |-> 0,
     recommendation |-> [form |-> "Comparison Error"],
     comment |-> [form |-> "Comparison failed", error |-> error_message]]

\* abs(rag_score - formula_score) and rag_confidence < threshold raise
\* TypeError on a value that is no number.
CompareRaises(rag, formula) ==
    \/ Get(rag, "score", PyNum(0)).k # "num"
    \/ Get(formula, "score", PyNum(0)).k # "num"
    \/ Get(rag, "confidence", PyNum(0)).k # "num"

compare(rag, formula) ==
    IF CompareRaises(rag, formula)
    THEN _create_error_result("TypeError")
    ELSE
    LET rag_score == Get(rag, "score", PyNum(0)).n
        formula_score == Get(formula, "score", PyNum(0)).n
        rag_confidence == Get(rag, "confidence", PyNum(0)).n
        score_difference == Abs(rag_score - formula_score)
        agreement == Agreement(score_difference)
    IN  [agreement |-> agreement,
         score_difference |-> Round1(score_difference * 10),
         rag_confidence |-> rag_confidence,
         recommendation |->
             _generate_recommendation(rag_score, formula_score,
                                      rag_confidence, agreement),
         comment |->
             _generate_comment(score_difference, rag_confidence, agreement)]

\* The text of a recommendation or comment says the case may need manual
\* review; only one template of the comparator does.
MentionsManualReview(text) ==
    text.form = "Significant score disagreement, may require manual review"

(***************************************************************************)
(* The scores, confidences and configurations compared.                    *)
(***************************************************************************)
ScoreInputs ==
    {PyNum(n) : n \in {0, 6500, 7000, 7500, 7525, 7800, 8000, 8020, 8300, 8600,
                       9000, 10000}} \cup {Absent, None}

ConfidenceInputs ==
    {PyNum(n) : n \in {0, 30, 49, 50, 55, 60, 70, 85, 100}} \cup {Absent, None}

\* AnalysisComparator(agreement_threshold, low_confidence_threshold): the
\* defaults and the configurations of the unit tests.
ComparatorConfigs == {<<500, 50>>, <<1000, 60>>, <<300, 70>>}

NoComparison == [form |-> "none"]

(***************************************************************************)
(* FormulaAnalysisService: the wrapper of the scoring tool.                *)
(***************************************************************************)
\* _get_eligibility_class_from_bracket
bracket_mapping ==
    [B1 |-> "B40", B2 |-> "B40", B3 |-> "B40", B4 |-> "B40",
     M1 |-> "M40-M1", M2 |-> "M40-M1", M3 |-> "M40-M2", M4 |-> "M40-M2",
     T1 |-> "T20", T2 |-> "T20"]

_get_eligibility_class_from_bracket(income_bracket) ==
    Lookup(bracket_mapping, income_bracket, "Unknown")

_has_doc_penalty(citizen) ==
    LET is_signature_valid == Get(citizen, "is_signature_valid", None)
        is_data_authentic == Get(citizen, "is_data_authentic", None)
    IN  ~(IsTrue(is_signature_valid) /\ IsTrue(is_data_authentic))

\* The keys of the breakdown that analyze and _generate_fyp_explanation read
\* by subscript.
BreakdownKeysRead ==
    {"base_score", "weighted_burden_75pct", "weighted_documentation_25pct",
     "component_total"}

\* The explanation is a text; its parts are kept.
_generate_fyp_explanation(scoring_result, citizen) ==
    [final_score |-> scoring_result.final_score,
     base_score |-> scoring_result.breakdown.base_score,
     burden_75 |-> scoring_result.breakdown.weighted_burden_75pct,
     doc_25 |-> scoring_result.breakdown.weighted_documentation_25pct,
     documentation_penalty_applied |-> _has_doc_penalty(citizen),
     disability_bonus_applied |->
         Truthy(Get(citizen, "disability_status", PyBool(FALSE)))]

\* The outcome of analyze: an exception that leaves the method
Raised(exception) == [raised |-> exception]

\* analyze on the dict forward returned: a result carrying an error raises
\* Exception, a breakdown lacking a key read by subscript raises KeyError,
\* and the exception is re-raised; otherwise the FormulaAnalysisResult.
\* Mutant: the error key is not tested and the result's score is delivered.
analyze_unchecked(citizen, scoring_result) ==
    IF "raised" \in DOMAIN scoring_result
    THEN scoring_result
    ELSE [score |-> scoring_result.final_score, confidence |-> 100]

\* scoring_result is the dict the tool returned or, when the tool raised,
\* the exception; except Exception: raise hands that exception on.
analyze(citizen, scoring_result) ==
    IF "raised" \in DOMAIN scoring_result
    THEN scoring_result
    ELSE IF "error" \in DOMAIN scoring_result
    THEN Raised("Exception: Scoring failed")
    ELSE IF ~(BreakdownKeysRead \subseteq DOMAIN scoring_result.breakdown)
    THEN Raised("KeyError")
    ELSE
    LET breakdown == scoring_result.breakdown
    IN  [score |-> scoring_result.final_score,
         base_score |-> breakdown.base_score,
         burden_adjustment |-> breakdown.component_total,
         burden_ratio |-> scoring_result.burden_ratio,
         state_median_burden |-> scoring_result.state_median_burden,
         eligibility_class |->
             _get_eligibility_class_from_bracket(
                 Get(citizen, "income_bracket", PyStr("Unknown"))),
         explanation |-> _generate_fyp_explanation(scoring_result, citizen),
         equivalent_income |-> scoring_result.equivalent_income,
         adult_equivalent |-> scoring_result.adult_equivalent,
         component_adjustments |->
             [documentation_penalty |-> _has_doc_penalty(citizen),
              disability_bonus |->
                  Get(citizen, "disability_status", PyBool(FALSE)),
              weighted_burden_75pct |-> breakdown.weighted_burden_75pct,
              weighted_documentation_25pct |->
                  breakdown.weighted_documentation_25pct],
         confidence |-> 100]

NoAnalysis == [raised |-> "not called"]

(***************************************************************************)
(* CitizenDataValidationTool.  Confidences in thousandths.  A citizen      *)
(* record is a function from the field names the tool reads to Python      *)
(* values.                                                                 *)
(***************************************************************************)
validator_required_fields == <<"income_bracket", "state">>

validator_bracket_mapping ==
    ("B1" :> "B40") @@ ("B2" :> "B40") @@ ("B3" :> "B40") @@ ("B4" :> "B40") @@
    ("M1" :> "M40") @@ ("M2" :> "M40") @@ ("M3" :> "M40") @@ ("M4" :> "M40") @@
    ("T1" :> "T20") @@ ("T2" :> "T20") @@
    ("B40" :> "B40") @@ ("M40" :> "M40") @@ ("T20" :> "T20")

all_known_brackets == DOMAIN validator_bracket_mapping

min_age == 18

max_age == 65

min_residency_months == 6

optional_beneficial_fields ==
    <<"employment_status", "family_size", "monthly_income", "has_disability",
      "education_level", "marital_status">>

ZeroValidationStats ==
    [total_validations |-> 0, high_confidence_validations |-> 0,
     manual_review_required |-> 0]

\* str.upper on the bracket codes tried: every other code tried has no
\* lower-case letter.
LowerCaseCodes == ("b2" :> "B2") @@ ("x9" :> "X9")

Upper(text) == IF text \in DOMAIN LowerCaseCodes THEN LowerCaseCodes[text] ELSE text

\* field in citizen_data and citizen_data[field] is not None
Present(data, field) == data[field].k \notin {"absent", "none"}

\* _get_equivalent_income of the validator: None without income data, else
\* the cell of the state as given (no alias table) and the bracket.
validator_get_equivalent_income(incomes, state, income_bracket) ==
    IF incomes = None THEN None
    ELSE IF Has(incomes, state) /\ income_bracket \in DOMAIN incomes[state.s]
    THEN PyNum(incomes[state.s][income_bracket])
    ELSE None

\* citizen_data.get("income_bracket", "").upper() raises AttributeError on a
\* value that is no string.
EnrichRaises(data) == Get(data, "income_bracket", PyStr("")).k # "str"

_enrich_citizen_data(incomes, data) ==
    LET income_bracket == Upper(Get(data, "income_bracket", PyStr("")).s)
        state == Get(data, "state", PyStr(""))
        mapped ==
            IF income_bracket \in DOMAIN validator_bracket_mapping
            THEN [data EXCEPT !["mapped_income_category"] =
                                  PyStr(validator_bracket_mapping[income_bracket])]
            ELSE data
        equivalent_income ==
            validator_get_equivalent_income(incomes, state, income_bracket)
    IN  IF Truthy(equivalent_income)
        THEN [mapped EXCEPT !["equivalent_income"] = equivalent_income]
        ELSE mapped

\* isinstance(value, str) / isinstance(value, int)
type_checks ==
    ("citizen_id" :> "str") @@ ("age" :> "num") @@
    ("residency_duration_months" :> "num") @@ ("income_bracket" :> "str") @@
    ("state" :> "str")

_validate_format(data) ==
    LET missing_fields ==
            SelectSeq(validator_required_fields, LAMBDA f : ~Present(data, f))
        invalid_types ==
            {f \in DOMAIN type_checks :
                data[f].k # "absent" /\ data[f].k # type_checks[f]}
        is_valid == missing_fields = <<>> /\ invalid_types = {}
    IN  [category |-> "format",
         valid |-> is_valid,
         confidence |-> 1000,
         reasoning |-> [missing_fields |-> missing_fields,
                        type_errors |-> invalid_types,
                        all_present |-> is_valid],
         missing_fields |-> missing_fields,
         recommendations |-> {},
         requires_llm_review |-> FALSE]

_validate_completeness(data) ==
    LET present_optional_fields ==
            SelectSeq(optional_beneficial_fields, LAMBDA f : Present(data, f))
        present == Len(present_optional_fields)
        total == Len(optional_beneficial_fields)
        missing_beneficial ==
            SelectSeq(optional_beneficial_fields, LAMBDA f : ~Present(data, f))
    IN  [category |-> "completeness",
         \* completeness_score >= 0.5
         valid |-> 2 * present >= total,
         \* 0.7 + completeness_score * 0.3
         confidence |-> 700 + (present * 300) \div total,
         reasoning |-> [present |-> present, total |-> total],
         missing_fields |-> <<>>,
         recommendations |->
             IF missing_beneficial # <<>>
             THEN {"Consider collecting the first missing beneficial fields"}
             ELSE {},
         \* completeness_score < 0.3
         requires_llm_review |-> 10 * present < 3 * total]

\* In the B40 branch the age and residency comparisons raise TypeError on a
\* value that is no number.
EligibilityRaises(data) ==
    /\ Get(data, "mapped_income_category", PyStr("")) = PyStr("B40")
    /\ \/ Get(data, "age", PyNum(0)).k # "num"
       \/ Get(data, "residency_duration_months", PyNum(0)).k # "num"

\* _validate_eligibility reads the record it is given.
_validate_eligibility(data, strict) ==
    LET income_bracket == Upper(Get(data, "income_bracket", PyStr("")).s)
        mapped_category == Get(data, "mapped_income_category", PyStr(""))
        equivalent_income == Get(data, "equivalent_income", PyNum(0))
        age == Get(data, "age", PyNum(0)).n
        residency_months == Get(data, "residency_duration_months", PyNum(0)).n
        age_eligible == age = 0 \/ (min_age <= age /\ age <= max_age)
        residency_eligible ==
            residency_months = 0 \/ residency_months >= min_residency_months
    IN  IF mapped_category = PyStr("B40")
        THEN [category |-> "eligibility",
              valid |-> TRUE,
              confidence |-> 1000,
              reasoning |->
                  [form |-> "Smart mapping (eligible with high confidence)",
                   income_bracket |-> income_bracket,
                   has_equivalent_income |-> Truthy(equivalent_income),
                   age_check |-> IF age = 0 THEN "not provided"
                                 ELSE IF age_eligible THEN "ok" ELSE "fail",
                   residency_check |->
                       IF residency_months = 0 THEN "not provided"
                       ELSE IF residency_eligible THEN "ok" ELSE "fail"],
              missing_fields |-> <<>>,
              recommendations |-> {},
              requires_llm_review |-> FALSE]
        ELSE IF income_bracket \in all_known_brackets
        THEN [category |-> "eligibility",
              valid |-> FALSE,
              confidence |-> IF strict THEN 600 ELSE 400,
              reasoning |->
                  [form |-> "known bracket but requires LLM analysis",
                   income_bracket |-> income_bracket],
              missing_fields |-> <<>>,
              recommendations |->
                  {"LLM analysis required for the bracket",
                   "Review latest policy documents for non-B40 eligibility criteria"},
              requires_llm_review |-> TRUE]
        ELSE [category |-> "eligibility",
              valid |-> FALSE,
              confidence |-> 200,
              reasoning |-> [form |-> "Unknown income bracket",
                             income_bracket |-> income_bracket],
              missing_fields |-> <<>>,
              recommendations |->
                  {"Verify and correct income bracket classification",
                   "Check for data entry errors or new bracket definitions"},
              requires_llm_review |-> TRUE]

\* Weights of the categories, in tenths
validation_weights == [format |-> 4, eligibility |-> 4, completeness |-> 2]

\* round(x, 3) of a quotient of non-negative integers giving thousandths
\* (ties to even)
Round3(num, den) ==
    LET q == num \div den
        r == num % den
    IN  IF 2 * r < den THEN q
        ELSE IF 2 * r > den THEN q + 1
        ELSE IF q % 2 = 0 THEN q ELSE q + 1

_calculate_overall_result(validation_results) ==
    LET categories == DOMAIN validation_results
        weight(c) == IF c \in categories THEN validation_weights[c] ELSE 0
        weighted(c) ==
            IF c \in categories
            THEN validation_results[c].confidence * validation_weights[c] ELSE 0
        total_weight == weight("format") + weight("completeness") + weight("eligibility")
        weighted_confidence ==
            weighted("format") + weighted("completeness") + weighted("eligibility")
        all_valid ==
            \A c \in categories \cap {"format", "eligibility"} :
                validation_results[c].valid
    IN  IF categories = {}
        THEN [valid |-> FALSE, confidence_score |-> 0]
        ELSE [valid |-> all_valid,
              confidence_score |-> Round3(weighted_confidence, total_weight)]

\* list(set(recommendations)): the recommendations without duplicates, in no
\* particular order
_generate_recommendations(validation_results) ==
    LET categories == DOMAIN validation_results
        overall_confidence ==
            _calculate_overall_result(validation_results).confidence_score
    IN  UNION {validation_results[c].recommendations : c \in categories}
        \cup (IF overall_confidence < 500
              THEN {"Consider manual review due to low confidence score"} ELSE {})
        \cup (IF \E c \in categories : validation_results[c].requires_llm_review
              THEN {"LLM-guided analysis recommended for complete assessment"}
              ELSE {})

validator_create_audit_trail(data, type, validation_results, strict, stats) ==
    [validation_type |-> type,
     strict_mode |-> strict,
     data_characteristics |->
         [total_fields |-> Cardinality({f \in DOMAIN data : data[f].k # "absent"}),
          required_fields_present |->
              Len(SelectSeq(validator_required_fields, LAMBDA f : Present(data, f))),
          income_bracket |-> Get(data, "income_bracket", PyStr("unknown")),
          has_age |-> data["age"].k # "absent",
          has_residency_info |-> data["residency_duration_months"].k # "absent"],
     validation_categories_processed |-> DOMAIN validation_results,
     overall_confidence |->
         _calculate_overall_result(validation_results).confidence_score,
     tool_version |-> "1.0.0",
     validation_stats |-> stats]

validator_create_error_response(error_message) ==
    [overall_valid |-> FALSE,
     confidence_score |-> 0,
     validation_details |-> [c \in {} |-> 0],
     recommendations |-> {"Fix validation error before proceeding"},
     audit_trail |-> [error |-> error_message, tool_version |-> "1.0.0"],
     requires_manual_review |-> TRUE,
     error |-> error_message]

\* The categories forward validates for a validation type
CategoriesOf(type) ==
    (IF type \in {"format", "all"} THEN {"format"} ELSE {})
    \cup (IF type \in {"completeness", "all"} THEN {"completeness"} ELSE {})
    \cup (IF type \in {"eligibility", "all"} THEN {"eligibility"} ELSE {})

\* The validation results of forward: format and completeness are run on the
\* enriched record, eligibility on the record as given.
ValidationResults(incomes, data, type, strict) ==
    LET enriched_data == _enrich_citizen_data(incomes, data)
    IN  [c \in CategoriesOf(type) |->
            CASE c = "format" -> _validate_format(enriched_data)
              [] c = "completeness" -> _validate_completeness(enriched_data)
              [] c = "eligibility" -> _validate_eligibility(data, strict)]

ValidateRaises(data, type) ==
    \/ EnrichRaises(data)
    \/ "eligibility" \in CategoriesOf(type) /\ EligibilityRaises(data)

\* requires_manual_review of forward
RequiresManualReview(validation_results) ==
    \/ \E c \in DOMAIN validation_results : validation_results[c].requires_llm_review
    \/ _calculate_overall_result(validation_results).confidence_score < 800

\* The statistics after forward: the call is counted first; a call that
\* raises counts in neither of the other two.
ValidationStatsAfter(stats, incomes, data, type, strict) ==
    LET counted == [stats EXCEPT !.total_validations = @ + 1]
    IN  IF ValidateRaises(data, type) THEN counted
        ELSE IF RequiresManualReview(ValidationResults(incomes, data, type, strict))
        THEN [counted EXCEPT !.manual_review_required = @ + 1]
        ELSE [counted EXCEPT !.high_confidence_validations = @ + 1]

\* The dict forward returns; stats are the statistics before the call.
validator_forward(incomes, data, type, strict, stats) ==
    IF ValidateRaises(data, type)
    THEN validator_create_error_response("exception")
    ELSE
    LET validation_results == ValidationResults(incomes, data, type, strict)
        overall_result == _calculate_overall_result(validation_results)
    IN  [overall_valid |-> overall_result.valid,
         confidence_score |-> overall_result.confidence_score,
         enriched_citizen_data |-> _enrich_citizen_data(incomes, data),
         validation_details |->
             [c \in DOMAIN validation_results |->
                 [valid |-> validation_results[c].valid,
                  confidence |-> validation_results[c].confidence,
                  reasoning |-> validation_results[c].reasoning,
                  missing_fields |-> validation_results[c].missing_fields,
                  recommendations |-> validation_results[c].recommendations,
                  requires_llm_review |-> validation_results[c].requires_llm_review]],
         recommendations |-> _generate_recommendations(validation_results),
         audit_trail |->
             validator_create_audit_trail(
                 data, type, validation_results, strict,
                 [stats EXCEPT !.total_validations = @ + 1]),
         requires_manual_review |-> RequiresManualReview(validation_results)]

(***************************************************************************)
(* The citizen records validated.                                          *)
(***************************************************************************)
ValidatorBracketInputs ==
    {PyStr(code) : code \in {"B1", "b2", "B4", "B40", "M1", "M3", "M40", "T1",
                             "T20", "X9", "x9", ""}}
        \cup {Absent, None, PyNum(5)}

\* The optional beneficial fields present: none, three or all six
OptionalFieldInputs ==
    {[f \in {"employment_status", "family_size", "monthly_income",
             "has_disability", "education_level", "marital_status"} |->
         IF f \in present THEN PyStr("given") ELSE Absent] :
     present \in {{},
                  {"employment_status", "family_size", "monthly_income"},
                  {"employment_status", "family_size", "monthly_income",
                   "has_disability", "education_level", "marital_status"}}}

CitizenRecords ==
    {core @@ optional :
        core \in [income_bracket : ValidatorBracketInputs,
                  state : {PyStr("Perlis"), Absent, None},
                  mapped_income_category : {Absent, PyStr("B40"), PyStr("M40")},
                  equivalent_income : {Absent},
                  citizen_id : {PyStr("123456789012"), PyNum(123)},
                  age : {Absent, PyNum(17), PyStr("thirty-five")},
                  residency_duration_months : {Absent, PyNum(3)}],
        optional \in OptionalFieldInputs}

ValidationTypes == {"format", "completeness", "eligibility", "all", "summary"}

NoValidation == [overall_valid |-> FALSE, not_called |-> TRUE]

(***************************************************************************)
(* The scoring tool: one instance, constructed over a loaded table, scores *)
(* the record it is given.                                                 *)
(***************************************************************************)
EngineInit ==
    /\ state_income_data \in LoadedTables
    /\ scoring_stats = ZeroStats
    /\ applicant_data \in ApplicantRecords
    /\ result = NoResult

EngineIdle ==
    /\ state_income_data = EmptyTable
    /\ scoring_stats = ZeroStats
    /\ applicant_data = [f \in {} |-> Absent]
    /\ result = NoResult

ComparatorInit ==
    /\ \E config \in ComparatorConfigs :
           /\ agreement_threshold = config[1]
           /\ low_confidence_threshold = config[2]
    /\ rag_result \in [score : ScoreInputs, confidence : ConfidenceInputs]
    /\ formula_result \in [score : ScoreInputs]
    /\ comparison = NoComparison

ComparatorIdle ==
    /\ agreement_threshold = 500
    /\ low_confidence_threshold = 50
    /\ rag_result = [score |-> Absent, confidence |-> Absent]
    /\ formula_result = [score |-> Absent]
    /\ comparison = NoComparison

BurdenInit ==
    /\ burden_ratios \in (0..MaxRatio) \X (0..MaxRatio)
    /\ raw_burden_scores = <<>>

BurdenIdle ==
    /\ burden_ratios = <<0, 0>>
    /\ raw_burden_scores = <<>>

FormulaIdle == analysis = NoAnalysis

\* Numbers for the guarded divisions: adult equivalents in tenths, incomes
\* in RM and reference burdens in millionths, zero and negative included
GuardInputs ==
    [adult_equivalent : {10, 15, 18, 31},
     equivalent_income : {-100, 0, 1, 2000, 5000},
     state_median_burden : {-275, 0, 275, 507, 772}]

NoGuardOutputs == [raw_burden_score |-> -1]

GuardInit ==
    /\ guard_inputs \in GuardInputs
    /\ guard_outputs = NoGuardOutputs

GuardIdle ==
    /\ guard_inputs = [adult_equivalent |-> 10, equivalent_income |-> 5000,
                       state_median_burden |-> 507]
    /\ guard_outputs = NoGuardOutputs

\* No call of forward recorded
HistoryIdle == history = <<>>

\* The threads that call forward on one shared tool
Threads == {"t1", "t2"}

\* No concurrent call
ThreadsIdle == threads = [t \in Threads |-> [pc |-> "done"]]

NoStructuredResult == [eligibility_class |-> "not analysed"]

\* No contextual analysis
RagIdle ==
    /\ agent_result = [status |-> "success", kind |-> "text", score |-> Absent,
                       confidence |-> Absent, keywords |-> {}]
    /\ rag_citizen_data = [disability_status |-> Absent,
                           number_of_children |-> Absent]
    /\ structured_result = NoStructuredResult

NoReturn == [reasoning |-> "not returned"]

\* No workflow run
WorkflowIdle ==
    /\ flow = [node |-> "END", citizen_id |-> "", include_web_search |-> TRUE,
               pdf_context |-> "", web_context |-> "", scoring_result |-> None,
               error |-> "", executed |-> <<>>]
    /\ returned = NoReturn

\* Records whose equivalent income is a zero, a negative or a positive cell
\* of the sample table, or a national threshold
GuardRecords ==
    {r \in ApplicantRecords :
        /\ r.state \in {PyStr("Perlis"), PyStr("Atlantis")}
        /\ r.income_bracket \in {PyStr("B1"), PyStr("B4"), PyStr("M4")}
        /\ r.household_size \in {PyNum(1), PyNum(2)}
        /\ r.number_of_children = PyNum(0)
        /\ r.disability_status \in {PyBool(TRUE), PyBool(FALSE)}
        /\ r.is_signature_valid = PyBool(TRUE)
        /\ r.is_data_authentic = PyBool(TRUE)}

GuardEngineInit ==
    /\ state_income_data \in LoadedTables
    /\ scoring_stats = ZeroStats
    /\ applicant_data \in GuardRecords
    /\ result = NoResult

ValidatorInit ==
    /\ income_data \in {None, SampleTable}
    /\ validation_stats = ZeroValidationStats
    /\ citizen_data \in CitizenRecords
    /\ validation_type \in ValidationTypes
    /\ strict_mode \in BOOLEAN
    /\ validation = NoValidation

ValidatorIdle ==
    /\ income_data = None
    /\ validation_stats = ZeroValidationStats
    /\ citizen_data = [f \in {} |-> Absent]
    /\ validation_type = "all"
    /\ strict_mode = FALSE
    /\ validation = NoValidation

Forward ==
    /\ scoring_stats.total_scores_calculated < MaxCalls
    /\ scoring_stats' = StatsAfter(scoring_stats, applicant_data)
    /\ result' = forward(applicant_data, scoring_stats')
    /\ UNCHANGED <<state_income_data, applicant_data>>
    /\ UNCHANGED <<comparator_vars, burden_vars, formula_vars, validator_vars, guard_vars,
                   history_vars,
                   thread_vars,
                   rag_vars,
                   workflow_vars>>

Compare ==
    /\ comparison' = compare(rag_result, formula_result)
    /\ UNCHANGED <<agreement_threshold, low_confidence_threshold, rag_result,
                   formula_result>>
    /\ UNCHANGED <<engine_vars, burden_vars, formula_vars, validator_vars, guard_vars,
                   history_vars,
                   thread_vars,
                   rag_vars,
                   workflow_vars>>

RawBurdenScore ==
    /\ raw_burden_scores' =
           <<_calculate_raw_burden_score([num |-> burden_ratios[1], den |-> 100]),
             _calculate_raw_burden_score([num |-> burden_ratios[2], den |-> 100])>>
    /\ UNCHANGED burden_ratios
    /\ UNCHANGED <<engine_vars, comparator_vars, formula_vars, validator_vars, guard_vars,
                   history_vars,
                   thread_vars,
                   rag_vars,
                   workflow_vars>>

\* The scoring tool
Init == EngineInit /\ ComparatorIdle /\ BurdenIdle /\ FormulaIdle /\ ValidatorIdle
        /\ GuardIdle /\ HistoryIdle /\ ThreadsIdle /\ RagIdle /\ WorkflowIdle

Next == Forward

Spec == Init /\ [][Next]_vars

\* The formula analysis service: its tool scores the record inside analyze
Analyze ==
    /\ scoring_stats.total_scores_calculated < MaxCalls
    /\ scoring_stats' = StatsAfter(scoring_stats, applicant_data)
    /\ result' = forward(applicant_data, scoring_stats')
    /\ analysis' = analyze(applicant_data, result')
    /\ UNCHANGED <<state_income_data, applicant_data>>
    /\ UNCHANGED <<comparator_vars, burden_vars, validator_vars, guard_vars,
                   history_vars,
                   thread_vars,
                   rag_vars,
                   workflow_vars>>

InitFormula == EngineInit /\ ComparatorIdle /\ BurdenIdle /\ FormulaIdle /\ ValidatorIdle
        /\ GuardIdle /\ HistoryIdle /\ ThreadsIdle /\ RagIdle /\ WorkflowIdle

NextFormula == Analyze

SpecFormula == InitFormula /\ [][NextFormula]_vars

\* The records of a call history: one priced by its table cell, one by the
\* default income, one without a state, one whose household size is null,
\* one of a disabled applicant and one with an invalid signature
CellRecord ==
    [state |-> PyStr("Perlis"), income_bracket |-> PyStr("B1"),
     household_size |-> PyNum(2), number_of_children |-> PyNum(1),
     disability_status |-> PyBool(FALSE), is_signature_valid |-> PyBool(TRUE),
     is_data_authentic |-> PyBool(TRUE)]

HistoryRecords ==
    {CellRecord,
     [CellRecord EXCEPT !.state = PyStr("Atlantis"), !.income_bracket = PyStr("X9")],
     [CellRecord EXCEPT !.state = Absent, !.income_bracket = PyStr("B2")],
     [CellRecord EXCEPT !.household_size = None],
     [CellRecord EXCEPT !.disability_status = PyBool(TRUE)],
     [CellRecord EXCEPT !.is_signature_valid = PyBool(FALSE)]}

\* The fields of a result compared between calls (the audit trail, which
\* carries the clock and the running statistics, is not among them)
ScoringResultFields ==
    {"final_score", "breakdown", "equivalent_income", "adult_equivalent",
     "burden_ratio", "state_median_burden", "missing_fields"}

\* One tool, constructed over a loaded table
InitHistory ==
    /\ state_income_data \in LoadedTables
    /\ scoring_stats = ZeroStats
    /\ applicant_data = CellRecord
    /\ result = NoResult
    /\ ComparatorIdle /\ BurdenIdle /\ FormulaIdle /\ ValidatorIdle /\ GuardIdle
    /\ HistoryIdle /\ ThreadsIdle /\ RagIdle /\ WorkflowIdle

\* Mutant: a national-threshold fallback is cached in the income table.
ForwardRecord_caching ==
    \E data \in HistoryRecords :
        LET income_bracket == Get(data, "income_bracket", PyStr("")).s
            source == IncomeSource(Get(data, "state", PyStr("")),
                                   Get(data, "income_bracket", PyStr("")))
        IN  /\ Len(history) < MaxHistory
            /\ applicant_data' = data
            /\ scoring_stats' = StatsAfter(scoring_stats, data)
            /\ result' = forward(data, scoring_stats')
            /\ history' =
                   Append(history,
                          [record |-> data,
                           fields |-> [f \in ScoringResultFields |-> result'[f]]])
            /\ state_income_data' =
                   IF source = "national"
                   THEN (Get(data, "state", PyStr("")).s :>
                            (income_bracket :> national_thresholds[income_bracket]))
                        @@ state_income_data
                   ELSE state_income_data
            /\ UNCHANGED <<comparator_vars, burden_vars, formula_vars,
                           validator_vars, guard_vars, thread_vars,
                   rag_vars,
                   workflow_vars>>

\* forward on any of the records, the call and its result being recorded
ForwardRecord ==
    \E data \in HistoryRecords :
        /\ Len(history) < MaxHistory
        /\ applicant_data' = data
        /\ scoring_stats' = StatsAfter(scoring_stats, data)
        /\ result' = forward(data, scoring_stats')
        /\ history' =
               Append(history,
                      [record |-> data,
                       fields |-> [f \in ScoringResultFields |-> result'[f]]])
        /\ UNCHANGED state_income_data
        /\ UNCHANGED <<comparator_vars, burden_vars, formula_vars,
                       validator_vars, guard_vars,
                       thread_vars,
                   rag_vars,
                   workflow_vars>>

NextHistory == ForwardRecord

SpecHistory == InitHistory /\ [][NextHistory]_vars

(***************************************************************************)
(* Scoring under the frontend names and the names of the reference file.   *)
(***************************************************************************)
\* A file with rows for two of the federal territories, and a row filed
\* under a frontend name
TerritoryFile ==
    [k |-> "file",
     rows |-> <<Row("W.P. Kuala Lumpur", "B1", PyNum(5076)),
                Row("W.P. Kuala Lumpur", "M1", PyNum(11000)),
                Row("W.P. Labuan", "B1", PyNum(2400)),
                Row("W.P. Labuan", "B2", PyNum(3400)),
                Row("Putrajaya", "B1", PyNum(9999))>>]

TerritoryTables == LoadedTables \cup {_load_csv_data(TerritoryFile)}

TerritoryRecords ==
    [state : {PyStr(name) : name \in DOMAIN state_name_mapping}
                 \cup {PyStr(state_name_mapping[name]) :
                           name \in DOMAIN state_name_mapping},
     income_bracket : BracketInputs,
     household_size : HouseholdInputs,
     number_of_children : ChildrenInputs,
     disability_status : {PyBool(TRUE), PyBool(FALSE)},
     is_signature_valid : {PyBool(TRUE), PyBool(FALSE)},
     is_data_authentic : {PyBool(TRUE)}]

InitTerritories ==
    /\ state_income_data \in TerritoryTables
    /\ scoring_stats = ZeroStats
    /\ applicant_data \in TerritoryRecords
    /\ result = NoResult
    /\ ComparatorIdle /\ BurdenIdle /\ FormulaIdle /\ ValidatorIdle /\ GuardIdle
    /\ HistoryIdle /\ ThreadsIdle /\ RagIdle /\ WorkflowIdle

NextTerritories == Forward

SpecTerritories == InitTerritories /\ [][NextTerritories]_vars

(***************************************************************************)
(* analyze over a tool that scores, and over a tool that raises (the       *)
(* service holds whatever tool it was constructed with).                   *)
(***************************************************************************)
ToolExceptions == {"ValueError: Invalid income bracket", "RuntimeError"}

\* analyze when self.eligibility_tool.forward raises
AnalyzeToolRaises ==
    /\ analysis = NoAnalysis
    /\ \E exception \in ToolExceptions :
           analysis' = analyze(applicant_data, Raised(exception))
    /\ UNCHANGED engine_vars
    /\ UNCHANGED <<comparator_vars, burden_vars, validator_vars, guard_vars,
                   history_vars, thread_vars, rag_vars,
                   workflow_vars>>

InitSurface == InitTerritories

NextSurface == Analyze \/ AnalyzeToolRaises

SpecSurface == InitSurface /\ [][NextSurface]_vars

(***************************************************************************)
(* EligibilityWorkflow: the graph of process_citizen.  Each node is one    *)
(* step; the retrievers and the scoring agent are collaborators that       *)
(* return a value or raise.  flow holds the EligibilityState, the node to  *)
(* run next and the nodes run so far.  Scores in hundredths.               *)
(***************************************************************************)
\* ScoringResult(citizen_id, eligibility_score, subsidy_amount, reasoning)
ScoringResult(citizen_id, eligibility_score, reasoning) ==
    [k |-> "ScoringResult", citizen_id |-> citizen_id,
     eligibility_score |-> eligibility_score, subsidy_amount |-> 0,
     reasoning |-> reasoning]

\* process_citizen builds the initial state and enters the graph at
\* pdf_retrieval
WorkflowInit ==
    /\ flow \in [node : {"pdf_retrieval"}, citizen_id : {"c1", "c2"},
                  include_web_search : BOOLEAN, pdf_context : {""},
                  web_context : {""}, scoring_result : {None}, error : {""},
                  executed : {<<>>}]
    /\ returned = NoReturn

\* The router of the conditional edge after pdf_retrieval
should_do_web_search(state) ==
    IF state.error # "" THEN "error_handler"
    ELSE IF state.include_web_search THEN "web_search"
    ELSE "scoring"

PdfContexts == {"", "policy text"}

WebContexts == {"", "latest news"}

AgentScoreOutcomes == {0, 4550, 8000, 10000}

\* A node has run: it is recorded and the graph moves to the next node
Ran(state, node, next) ==
    [state EXCEPT !.executed = Append(@, node), !.node = next]

pdf_retrieval_node ==
    /\ flow.node = "pdf_retrieval"
    /\ \/ \E pdf_context \in PdfContexts :
              LET state == [flow EXCEPT !.pdf_context = pdf_context]
              IN  flow' = Ran(state, "pdf_retrieval", should_do_web_search(state))
       \/ LET state == [flow EXCEPT !.error = "PDF retrieval error",
                                    !.pdf_context = ""]
          IN  flow' = Ran(state, "pdf_retrieval", should_do_web_search(state))
    /\ UNCHANGED returned
    /\ UNCHANGED <<engine_vars, comparator_vars, burden_vars, formula_vars,
                   validator_vars, guard_vars, history_vars, thread_vars, rag_vars>>

\* The edge from web_search goes to scoring
web_search_node ==
    /\ flow.node = "web_search"
    /\ \/ \E web_context \in WebContexts :
              flow' = Ran([flow EXCEPT !.web_context = web_context],
                          "web_search", "scoring")
       \/ flow' = Ran([flow EXCEPT !.error = "Web search error",
                                   !.web_context = ""],
                      "web_search", "scoring")
    /\ UNCHANGED returned
    /\ UNCHANGED <<engine_vars, comparator_vars, burden_vars, formula_vars,
                   validator_vars, guard_vars, history_vars, thread_vars, rag_vars>>

scoring_node ==
    /\ flow.node = "scoring"
    /\ \/ \E eligibility_score \in AgentScoreOutcomes :
              flow' = Ran([flow EXCEPT !.scoring_result =
                                          ScoringResult(flow.citizen_id,
                                                        eligibility_score,
                                                        "scored by the agent")],
                          "scoring", "END")
       \/ flow' = Ran([flow EXCEPT !.error = "Scoring error"], "scoring", "END")
    /\ UNCHANGED returned
    /\ UNCHANGED <<engine_vars, comparator_vars, burden_vars, formula_vars,
                   validator_vars, guard_vars, history_vars, thread_vars, rag_vars>>

error_handler_node ==
    /\ flow.node = "error_handler"
    /\ flow' = Ran([flow EXCEPT !.scoring_result =
                                    ScoringResult(flow.citizen_id, 0,
                                                  "Workflow error")],
                   "error_handler", "END")
    /\ UNCHANGED returned
    /\ UNCHANGED <<engine_vars, comparator_vars, burden_vars, formula_vars,
                   validator_vars, guard_vars, history_vars, thread_vars, rag_vars>>

\* process_citizen after graph.invoke: the result of the final state, or a
\* zero score when there is none
process_citizen_returns ==
    /\ flow.node = "END"
    /\ returned = NoReturn
    /\ flow.executed # <<>>
    /\ returned' =
           IF flow.scoring_result # None
           THEN flow.scoring_result
           ELSE ScoringResult(flow.citizen_id, 0,
                              "Workflow completed but no result produced")
    /\ UNCHANGED flow
    /\ UNCHANGED <<engine_vars, comparator_vars, burden_vars, formula_vars,
                   validator_vars, guard_vars, history_vars, thread_vars, rag_vars>>

InitWorkflow ==
    EngineIdle /\ ComparatorIdle /\ BurdenIdle /\ FormulaIdle /\ ValidatorIdle
        /\ GuardIdle /\ HistoryIdle /\ ThreadsIdle /\ RagIdle /\ WorkflowInit

NextWorkflow ==
    \/ pdf_retrieval_node
    \/ web_search_node
    \/ scoring_node
    \/ error_handler_node
    \/ process_citizen_returns

SpecWorkflow == InitWorkflow /\ [][NextWorkflow]_vars

(***************************************************************************)
(* RagAnalysisService: the result of the agent is parsed into a            *)
(* RagAnalysisResult.  Scores and confidences in hundredths.  An agent     *)
(* result is [status, kind, score, confidence, keywords]: kind says what   *)
(* raw_result is ("dict": a non-empty dict, "empty dict", "json text": a   *)
(* string holding a JSON object, "malformed json": a string whose braces   *)
(* json.loads rejects, "text": any other string); score and confidence are *)
(* the entries of the dict or JSON object; keywords are the class names    *)
(* the lower-cased string contains.                                        *)
(***************************************************************************)
\* float(x) raises on None and on a string that is no number
FloatRaises(v) == v.k \in {"none", "str"}

\* The RagAnalysisResult of a parsing failure
ParsingFailure ==
    [score |-> 5000, confidence |-> 30, eligibility_class |-> "Unknown",
     overall_valid |-> FALSE]

\* The fallback that reads the class from the text
ParseText(keywords, citizen) ==
    LET eligibility_class ==
            IF "b40" \in keywords THEN "B40"
            ELSE IF "m40-m1" \in keywords THEN "M40-M1"
            ELSE IF "m40-m2" \in keywords \/ "m2" \in keywords THEN "M40-M2"
            ELSE IF "t20" \in keywords THEN "T20"
            ELSE "Unknown"
        class_score ==
            CASE eligibility_class = "B40" -> 8000
              [] eligibility_class = "M40-M1" -> 6500
              [] eligibility_class = "M40-M2" -> 5000
              [] eligibility_class = "T20" -> 3000
              [] OTHER -> 6000
        disability ==
            IF Truthy(Get(citizen, "disability_status", None)) THEN 800 ELSE 0
        children == Get(citizen, "number_of_children", PyNum(0))
        bonus == IF children.n > 0 THEN Min(children.n * 200, 600) ELSE 0
        score == class_score + disability + bonus
    IN  IF children.k # "num"
        THEN ParsingFailure
        ELSE [score |-> Min(Max(score, 0), 10000), confidence |-> 60,
              eligibility_class |-> eligibility_class, overall_valid |-> TRUE]

_parse_smart_agent_result(agent, citizen) ==
    IF agent.status = "error"
    THEN ParsingFailure
    ELSE IF agent.kind \in {"dict", "json text"}
    THEN LET score == Get(agent, "score", PyNum(5000))
             confidence == Get(agent, "confidence", PyNum(50))
         IN  IF FloatRaises(score) \/ FloatRaises(confidence)
             THEN ParsingFailure
             ELSE [score |-> score.n, confidence |-> confidence.n,
                   eligibility_class |-> "from the agent", overall_valid |-> TRUE]
    ELSE ParseText(agent.keywords, citizen)

\* What the agent may return
AgentScores ==
    {PyNum(n) : n \in {-500, 0, 5000, 7650, 10000, 15000}}
        \cup {Absent, None, PyStr("high")}

AgentConfidences ==
    {PyNum(n) : n \in {-10, 0, 50, 85, 100, 150}} \cup {Absent, None, PyStr("high")}

AgentTexts ==
    {{}, {"b40"}, {"b40", "t20"}, {"m40-m1"}, {"m40-m2", "m2"}, {"m2"}, {"t20"}}

AgentResults ==
    [status : {"success"}, kind : {"dict", "json text"}, score : AgentScores,
     confidence : AgentConfidences, keywords : {{}}]
    \cup [status : {"success", "error"},
          kind : {"text", "malformed json", "empty dict"},
          score : {Absent}, confidence : {Absent}, keywords : AgentTexts]

RagCitizens ==
    [disability_status : {PyBool(TRUE), PyBool(FALSE), Absent, None},
     number_of_children : {PyNum(n) : n \in {0, 1, 2, 4}} \cup {Absent, None}]

RagInit ==
    /\ agent_result \in AgentResults
    /\ rag_citizen_data \in RagCitizens
    /\ structured_result = NoStructuredResult

\* analyze, from the return of the agent on: the result is parsed and
\* returned (the records written to the log directory are left out)
RagAnalyze ==
    /\ structured_result = NoStructuredResult
    /\ structured_result' = _parse_smart_agent_result(agent_result, rag_citizen_data)
    /\ UNCHANGED <<agent_result, rag_citizen_data>>
    /\ UNCHANGED <<engine_vars, comparator_vars, burden_vars, formula_vars,
                   validator_vars, guard_vars, history_vars, thread_vars,
                   workflow_vars>>

InitRag ==
    EngineIdle /\ ComparatorIdle /\ BurdenIdle /\ FormulaIdle /\ ValidatorIdle
        /\ GuardIdle /\ HistoryIdle /\ ThreadsIdle /\ RagInit /\ WorkflowIdle

NextRag == RagAnalyze

SpecRag == InitRag /\ [][NextRag]_vars

(***************************************************************************)
(* Concurrent calls of forward on one tool.  self.scoring_stats[k] += 1    *)
(* reads the counter and then writes it; between the two, and between any  *)
(* two statements of forward, another thread may run.                      *)
(***************************************************************************)
\* The counters a call increments, in the order forward reaches them:
\* total_scores_calculated in forward, missing_data_cases in
\* _check_missing_fields, then the branch counter of _get_equivalent_income
CountersOf(data) ==
    LET source == IncomeSource(Get(data, "state", PyStr("")),
                               Get(data, "income_bracket", PyStr("")))
    IN  <<"total_scores_calculated">>
        \o (IF _check_missing_fields(data) # <<>>
            THEN <<"missing_data_cases">> ELSE <<>>)
        \o (IF source = "csv" THEN <<"csv_lookups_successful">>
            ELSE IF source = "national" THEN <<"national_fallback_used">>
            ELSE <<>>)

\* A call that has not started
Started(data) ==
    [pc |-> "load", data |-> data, todo |-> CountersOf(data), loaded |-> 0,
     result |-> NoResult]

InitThreads ==
    /\ state_income_data \in LoadedTables
    /\ scoring_stats = ZeroStats
    /\ applicant_data = CellRecord
    /\ result = NoResult
    /\ ComparatorIdle /\ BurdenIdle /\ FormulaIdle /\ ValidatorIdle /\ GuardIdle
    /\ HistoryIdle /\ RagIdle /\ WorkflowIdle
    /\ threads \in [Threads -> {Started(data) : data \in HistoryRecords}]

\* The read of self.scoring_stats[k] += 1
LoadCounter(t) ==
    /\ threads[t].pc = "load"
    /\ threads[t].todo # <<>>
    /\ threads' = [threads EXCEPT ![t].loaded = scoring_stats[Head(threads[t].todo)],
                                  ![t].pc = "store"]
    /\ UNCHANGED <<engine_vars, comparator_vars, burden_vars, formula_vars,
                   validator_vars, guard_vars, history_vars, rag_vars,
                   workflow_vars>>

\* The write of self.scoring_stats[k] += 1
StoreCounter(t) ==
    /\ threads[t].pc = "store"
    /\ scoring_stats' =
           [scoring_stats EXCEPT ![Head(threads[t].todo)] = threads[t].loaded + 1]
    /\ threads' = [threads EXCEPT ![t].todo = Tail(@), ![t].pc = "load"]
    /\ UNCHANGED <<state_income_data, applicant_data, result>>
    /\ UNCHANGED <<comparator_vars, burden_vars, formula_vars,
                   validator_vars, guard_vars, history_vars, rag_vars,
                   workflow_vars>>

\* The rest of forward: the audit trail copies self.scoring_stats as they
\* are then, and the dict is returned
ReturnResult(t) ==
    /\ threads[t].pc = "load"
    /\ threads[t].todo = <<>>
    /\ threads' = [threads EXCEPT ![t].result = forward(threads[t].data, scoring_stats),
                                  ![t].pc = "done"]
    /\ UNCHANGED <<engine_vars, comparator_vars, burden_vars, formula_vars,
                   validator_vars, guard_vars, history_vars, rag_vars,
                   workflow_vars>>

NextThreads ==
    \E t \in Threads : LoadCounter(t) \/ StoreCounter(t) \/ ReturnResult(t)

SpecThreads == InitThreads /\ [][NextThreads]_vars

\* The outcome of the two calls made one after the other, first then second
Sequential(first, second) ==
    LET stats1 == StatsAfter(ZeroStats, threads[first].data)
        stats2 == StatsAfter(stats1, threads[second].data)
    IN  [scoring_stats |-> stats2,
         results |-> (first :> forward(threads[first].data, stats1))
                     @@ (second :> forward(threads[second].data, stats2))]

\* Steps 3 to 7 of _calculate_burden_score on the numbers given
BurdenGuards ==
    /\ guard_outputs = NoGuardOutputs
    /\ LET applicant_burden ==
               ApplicantBurden(guard_inputs.adult_equivalent,
                               guard_inputs.equivalent_income)
           burden_ratio ==
               BurdenRatio(applicant_burden, guard_inputs.state_median_burden)
       IN  guard_outputs' =
               [applicant_burden |-> applicant_burden,
                burden_ratio |-> burden_ratio,
                raw_burden_score |-> _calculate_raw_burden_score(burden_ratio)]
    /\ UNCHANGED guard_inputs
    /\ UNCHANGED <<engine_vars, comparator_vars, burden_vars, formula_vars,
                   validator_vars, history_vars,
                   thread_vars,
                   rag_vars,
                   workflow_vars>>

\* The guarded divisions: on any numbers, and inside forward on records of the
\* sample table
InitGuards ==
    GuardEngineInit /\ ComparatorIdle /\ BurdenIdle /\ FormulaIdle /\ ValidatorIdle
        /\ GuardInit /\ HistoryIdle /\ ThreadsIdle /\ RagIdle /\ WorkflowIdle

NextGuards == Forward \/ BurdenGuards

SpecGuards == InitGuards /\ [][NextGuards]_vars

\* The validation tool
Validate ==
    /\ validation_stats.total_validations < MaxCalls
    /\ validation' = validator_forward(income_data, citizen_data, validation_type,
                                       strict_mode, validation_stats)
    /\ validation_stats' =
           ValidationStatsAfter(validation_stats, income_data, citizen_data,
                                validation_type, strict_mode)
    /\ UNCHANGED <<income_data, citizen_data, validation_type, strict_mode>>
    /\ UNCHANGED <<engine_vars, comparator_vars, burden_vars, formula_vars,
                   guard_vars, history_vars,
                   thread_vars,
                   rag_vars,
                   workflow_vars>>

InitValidate ==
    EngineIdle /\ ComparatorIdle /\ BurdenIdle /\ FormulaIdle /\ ValidatorInit
        /\ GuardIdle /\ HistoryIdle /\ ThreadsIdle /\ RagIdle /\ WorkflowIdle

NextValidate == Validate

SpecValidate == InitValidate /\ [][NextValidate]_vars

\* The comparator
InitCompare == EngineIdle /\ ComparatorInit /\ BurdenIdle /\ FormulaIdle /\ ValidatorIdle
        /\ GuardIdle /\ HistoryIdle /\ ThreadsIdle /\ RagIdle /\ WorkflowIdle

NextCompare == Compare

SpecCompare == InitCompare /\ [][NextCompare]_vars

\* _calculate_raw_burden_score on two ratios
InitBurden == EngineIdle /\ ComparatorIdle /\ BurdenInit /\ FormulaIdle /\ ValidatorIdle
        /\ GuardIdle /\ HistoryIdle /\ ThreadsIdle /\ RagIdle /\ WorkflowIdle

NextBurden == RawBurdenScore

SpecBurden == InitBurden /\ [][NextBurden]_vars

(***************************************************************************)
(* Properties of EligibilityScoreTool.forward, under Spec.                 *)
(***************************************************************************)
Called == scoring_stats.total_scores_calculated > 0

IsError(r) == "error" \in DOMAIN r

AutoQualified(r) == "disability_auto_qualify" \in DOMAIN r.breakdown

\* C1: a record with disability_status true is scored exactly 100 with the
\* disability auto-qualification marker, whatever its other fields are
\* (absent, null or unrecognised included; a household size of another type
\* than a number is left out).
C1_DisabilityAlwaysScores100 ==
    (Called /\ IsTrue(applicant_data.disability_status)
        /\ applicant_data.household_size.k # "str") =>
        /\ ~IsError(result)
        /\ result.final_score = Pts(100)
        /\ AutoQualified(result)

\* C2: every result of forward, the error response included, has
\* 0 <= final_score <= 100.
C2_FinalScoreInRange ==
    Called => (0 <= result.final_score /\ result.final_score <= Pts(100))

\* C2 witness: a normal result whose base score plus components exceeds 100
\* and whose final score is the cap.
C2_CapReached ==
    /\ Called
    /\ ~IsError(result)
    /\ ~AutoQualified(result)
    /\ result.breakdown.base_score + result.breakdown.component_total > Pts(100)
    /\ result.final_score = Pts(100)

C8_DocumentationAllOrNothing ==
    (Called /\ ~IsError(result) /\ ~AutoQualified(result)) =>
        result.breakdown.documentation_score =
            IF /\ applicant_data.is_signature_valid = PyBool(TRUE)
               /\ applicant_data.is_data_authentic = PyBool(TRUE)
            THEN Pts(100) ELSE 0

\* C8 witness: both flags true and the full documentation score.
C8_FullDocumentation ==
    /\ Called
    /\ ~IsError(result)
    /\ ~AutoQualified(result)
    /\ applicant_data.is_signature_valid = PyBool(TRUE)
    /\ applicant_data.is_data_authentic = PyBool(TRUE)
    /\ result.breakdown.documentation_score = Pts(100)

\* C9: the base score is 60 for B1-B4, 40 for M1-M2, 20 for M3-M4, 0 for
\* T1-T2, and 0 for an unrecognised or absent bracket.
C9_TierBaseScore ==
    (Called /\ ~IsError(result)) =>
        LET bracket == applicant_data.income_bracket
            expected ==
                IF bracket.k # "str" THEN 0
                ELSE IF bracket.s \in {"B1", "B2", "B3", "B4"} THEN 60
                ELSE IF bracket.s \in {"M1", "M2"} THEN 40
                ELSE IF bracket.s \in {"M3", "M4"} THEN 20
                ELSE 0
        IN  result.breakdown.base_score = Pts(expected)

\* C9 witness: an unrecognised bracket scored with base score 0.
C9_UnknownBracketScored ==
    /\ Called
    /\ ~IsError(result)
    /\ applicant_data.income_bracket = PyStr("X9")
    /\ result.breakdown.base_score = 0

\* C10: for household size >= 1 and number of children >= 0 the Adult
\* Equivalent is 1 + 0.5 * (adults - 1) + 0.3 * children with
\* adults = max(1, household size - children); a single person has 1.0.
C10_AdultEquivalent ==
    LET hs == applicant_data.household_size
        nc == applicant_data.number_of_children
    IN  (Called /\ ~IsError(result) /\ hs.k = "num" /\ nc.k = "num"
            /\ hs.n >= 1 /\ nc.n >= 0) =>
            LET adults == IF hs.n - nc.n >= 1 THEN hs.n - nc.n ELSE 1
            IN  /\ result.adult_equivalent = 10 + 5 * (adults - 1) + 3 * nc.n
                /\ (hs.n = 1 /\ nc.n = 0 => result.adult_equivalent = 10)

\* C10 witness: more children than household members, AE = 1 + 0.3 * 2.
C10_ChildrenExceedHousehold ==
    /\ Called
    /\ ~IsError(result)
    /\ applicant_data.household_size = PyNum(1)
    /\ applicant_data.number_of_children = PyNum(2)
    /\ result.adult_equivalent = 16

(***************************************************************************)
(* Properties of _calculate_raw_burden_score, under SpecBurden.            *)
(***************************************************************************)
\* C7: the raw burden score is 50 for ratio <= 1.0, 70 for ratio <= 1.2,
\* 90 for ratio <= 1.5 and 100 above, each boundary in the lower bucket,
\* and it never decreases as the ratio increases.
C7_RawBurdenBuckets ==
    raw_burden_scores # <<>> =>
        /\ \A i \in {1, 2} :
               raw_burden_scores[i] =
                   IF burden_ratios[i] <= 100 THEN 50
                   ELSE IF burden_ratios[i] <= 120 THEN 70
                   ELSE IF burden_ratios[i] <= 150 THEN 90
                   ELSE 100
        /\ (burden_ratios[1] <= burden_ratios[2] =>
               raw_burden_scores[1] <= raw_burden_scores[2])

\* C7 witness: the boundary 1.2 scored 70 and the next ratio, 1.21, 90.
C7_BoundaryInLowerBucket ==
    /\ burden_ratios = <<120, 121>>
    /\ raw_burden_scores = <<70, 90>>

(***************************************************************************)
(* Properties of AnalysisComparator.compare, under SpecCompare.            *)
(***************************************************************************)
Compared == comparison # NoComparison

RagScore == Get(rag_result, "score", PyNum(0)).n

FormulaScore == Get(formula_result, "score", PyNum(0)).n

RagConfidence == Get(rag_result, "confidence", PyNum(0)).n

\* compare was called on numbers and its confidence is not low
ConfidentComparison ==
    /\ Compared
    /\ ~CompareRaises(rag_result, formula_result)
    /\ RagConfidence >= low_confidence_threshold

\* C4: whenever the contextual confidence is below the low-confidence
\* threshold, compare returns agreement = false and a recommendation that
\* names the formula score, whatever the score difference.
C4_LowConfidenceNeverAgrees ==
    (Compared /\ ~CompareRaises(rag_result, formula_result)
        /\ RagConfidence < low_confidence_threshold) =>
        /\ comparison.agreement = FALSE
        /\ comparison.recommendation.form = "Formula Score"

\* C5: with the confidence at or above the low-confidence threshold,
\* agreement is true exactly when |formula - contextual| <= the agreement
\* threshold, for each configured threshold.
C5_AgreementIffWithinThreshold ==
    ConfidentComparison =>
        (comparison.agreement <=>
            Abs(FormulaScore - RagScore) <= agreement_threshold)

\* C5 witness: a difference equal to the agreement threshold, which agrees.
C5_ExactThresholdAgrees ==
    /\ ConfidentComparison
    /\ Abs(FormulaScore - RagScore) = agreement_threshold
    /\ comparison.agreement

\* C6 as stated: in the disagreement branch the recommendation flags the case
\* for manual review exactly when the difference is greater than 15.0.
C6_RecommendationFlagsManualReview ==
    (ConfidentComparison /\ Abs(FormulaScore - RagScore) > agreement_threshold) =>
        (MentionsManualReview(comparison.recommendation) <=>
            Abs(FormulaScore - RagScore) > 1500)

\* C6 amended: in the disagreement branch the comment, not the
\* recommendation, flags the case for manual review exactly when the
\* difference is greater than 15.0; the recommendation is the disagreement
\* report and never carries the flag.
C6_CommentFlagsManualReview ==
    (ConfidentComparison /\ Abs(FormulaScore - RagScore) > agreement_threshold) =>
        /\ MentionsManualReview(comparison.comment) <=>
               Abs(FormulaScore - RagScore) > 1500
        /\ comparison.recommendation.form = "Disagreement"
        /\ ~MentionsManualReview(comparison.recommendation)

\* C6 witness: a difference of 16.0 with a confident contextual score.
C6_SignificantDisagreement ==
    /\ ConfidentComparison
    /\ Abs(FormulaScore - RagScore) = 1600
    /\ ~comparison.agreement
    /\ MentionsManualReview(comparison.comment)

(***************************************************************************)
(* Properties of the reference data and the fallbacks, under Spec.         *)
(***************************************************************************)
\* The state name after the alias table
CanonicalState ==
    LET state == applicant_data.state
    IN  IF state.k # "str" THEN ""
        ELSE IF state.s = "Kuala Lumpur" THEN "W.P. Kuala Lumpur"
        ELSE IF state.s = "Labuan" THEN "W.P. Labuan"
        ELSE IF state.s = "Putrajaya" THEN "W.P. Putrajaya"
        ELSE state.s

\* The loaded table has a cell for the record's state and bracket
CellPresent ==
    /\ CanonicalState \in DOMAIN state_income_data
    /\ applicant_data.income_bracket.k = "str"
    /\ applicant_data.income_bracket.s \in DOMAIN state_income_data[CanonicalState]

\* The record's bracket is one of the ten known codes
KnownBracket ==
    /\ applicant_data.income_bracket.k = "str"
    /\ applicant_data.income_bracket.s \in
           {"B1", "B2", "B3", "B4", "M1", "M2", "M3", "M4", "T1", "T2"}

\* The household fields are numbers or absent, so that the arithmetic on them
\* does not raise
HouseholdArithmeticDefined ==
    /\ applicant_data.household_size.k \in {"num", "absent"}
    /\ applicant_data.number_of_children.k \in {"num", "absent"}

\* C11: for every loaded table, the empty one of a missing or unparsable file
\* included, the equivalent income is the (state, bracket) cell when present,
\* else the national threshold of a known bracket, else 5000; the lookup
\* raises for no state or bracket, so forward fails only on the household
\* arithmetic.
C11_EquivalentIncomeFallback ==
    Called =>
        /\ IsError(result) <=> ~HouseholdArithmeticDefined
        /\ ~IsError(result) =>
               result.equivalent_income =
                   IF CellPresent
                   THEN state_income_data[CanonicalState][applicant_data.income_bracket.s]
                   ELSE IF KnownBracket
                   THEN national_thresholds[applicant_data.income_bracket.s]
                   ELSE 5000

\* C11 witness: over the empty table a known bracket of a state of the file
\* resolves to its national threshold.
C11_EmptyTableNationalFallback ==
    /\ Called
    /\ ~IsError(result)
    /\ state_income_data = EmptyTable
    /\ applicant_data.state = PyStr("Perlis")
    /\ applicant_data.income_bracket = PyStr("B2")
    /\ result.equivalent_income = 3439

\* The required fields of the record that are absent or null, in the order
\* state, income_bracket, household_size, number_of_children
AbsentOrNullRequired ==
    SelectSeq(<<"state", "income_bracket", "household_size", "number_of_children">>,
              LAMBDA f : applicant_data[f] \in {Absent, None})

\* C12: whatever subset of the required fields is absent or null (the other
\* fields holding values of their type), forward returns a scored, non-error
\* result and its missing_fields lists exactly the absent-or-null required
\* fields.
C12_MissingFieldsStillScored ==
    (Called /\ applicant_data.household_size.k # "str") =>
        /\ ~IsError(result)
        /\ result.missing_fields = AbsentOrNullRequired

(***************************************************************************)
(* Properties of the shape of the result, under Spec.                      *)
(***************************************************************************)
\* C13: every non-error result, on the normal and on the disability path,
\* has a breakdown with base_score, documentation_score and component_total
\* and with raw_burden_score or the disability marker, and the top-level
\* keys equivalent_income, adult_equivalent, burden_ratio,
\* state_median_burden and missing_fields.
C13_ResultShape ==
    (Called /\ ~IsError(result)) =>
        /\ {"base_score", "documentation_score", "component_total"}
               \subseteq DOMAIN result.breakdown
        /\ \/ "raw_burden_score" \in DOMAIN result.breakdown
           \/ "disability_auto_qualify" \in DOMAIN result.breakdown
        /\ {"equivalent_income", "adult_equivalent", "burden_ratio",
            "state_median_burden", "missing_fields"} \subseteq DOMAIN result

(***************************************************************************)
(* Properties of FormulaAnalysisService.analyze, under SpecFormula.        *)
(***************************************************************************)
Analyzed == analysis # NoAnalysis

Returned(a) == "raised" \notin DOMAIN a

\* C14: for every record the tool scores without error, analyze returns a
\* FormulaAnalysisResult whose score is the tool's final_score; with
\* disability_status true that score is 100.
C14_AnalyzeDeliversScore ==
    (Analyzed /\ ~IsError(result)) =>
        /\ Returned(analysis)
        /\ analysis.score = result.final_score
        /\ (IsTrue(applicant_data.disability_status) => analysis.score = Pts(100))

(***************************************************************************)
(* Properties of CitizenDataValidationTool.forward, under SpecValidate.    *)
(***************************************************************************)
Validated == validation # NoValidation

ValidationFailed == "error" \in DOMAIN validation

EligibilityValidated ==
    /\ Validated
    /\ ~ValidationFailed
    /\ "eligibility" \in DOMAIN validation.validation_details

\* C15: the enrichment maps each of the ten sub-brackets to the macro tier
\* that the scoring tool and the formula service assign to it (B1..B4 -> B40,
\* M1,M2 -> M40-M1, M3,M4 -> M40-M2, T1,T2 -> T20), and sets no tier for an
\* unrecognised code.
C15_EnrichmentTier ==
    (Validated /\ ~ValidationFailed /\ citizen_data.income_bracket.k = "str") =>
        LET code == citizen_data.income_bracket.s
            enriched == validation.enriched_citizen_data
        IN  /\ code \in DOMAIN bracket_to_class =>
                /\ enriched.mapped_income_category = PyStr(bracket_to_class[code])
                /\ enriched.mapped_income_category = PyStr(bracket_mapping[code])
            /\ code \in {"X9", "x9"} =>
                enriched.mapped_income_category = citizen_data.mapped_income_category

\* The record's bracket belongs to the B40 class: B1..B4 or the legacy code
\* B40, in any letter case
B40ClassBracket ==
    /\ citizen_data.income_bracket.k = "str"
    /\ citizen_data.income_bracket.s \in
           {"B1", "B2", "B3", "B4", "B40", "b1", "b2", "b3", "b4", "b40"}

\* The record's bracket is a string that is none of the codes the validator
\* knows, in any letter case (an absent bracket reads as the empty string)
UnrecognisedBracket ==
    /\ citizen_data.income_bracket.k \in {"str", "absent"}
    /\ citizen_data.income_bracket.s \in {"X9", "x9", ""}

\* C16: validating the eligibility (validation type 'eligibility' or 'all')
\* of a record whose bracket belongs to the B40 class reports the
\* eligibility category valid with confidence 1.0 and without LLM review.
C16_B40HighConfidence ==
    (Validated /\ validation_type \in {"eligibility", "all"} /\ B40ClassBracket
        /\ citizen_data.age.k # "str") =>
        /\ EligibilityValidated
        /\ validation.validation_details["eligibility"].valid
        /\ validation.validation_details["eligibility"].confidence = 1000
        /\ ~validation.validation_details["eligibility"].requires_llm_review

\* C17: validating the eligibility of a record with an unrecognised bracket
\* reports eligibility invalid with confidence 0.2 and LLM review required,
\* overall_valid false and requires_manual_review true.
C17_UnknownBracketNeverEligible ==
    (Validated /\ validation_type \in {"eligibility", "all"} /\ UnrecognisedBracket
        /\ citizen_data.age.k # "str") =>
        /\ EligibilityValidated
        /\ ~validation.validation_details["eligibility"].valid
        /\ validation.validation_details["eligibility"].confidence = 200
        /\ validation.validation_details["eligibility"].requires_llm_review
        /\ ~validation.overall_valid
        /\ validation.requires_manual_review

(***************************************************************************)
(* Properties of the provenance of the looked-up values, under Spec.       *)
(***************************************************************************)
\* The equivalent income of the call came from the national thresholds or
\* from the constant 5000
IncomeFromFallback == ~CellPresent

\* The reference burden of the call is the national median burden
BurdenFromFallback == CanonicalState \notin DOMAIN state_median_burdens

\* The keys under which a result could carry the provenance of its values or
\* a reduced confidence
ProvenanceKeys ==
    {"provenance", "income_source", "burden_source", "data_source",
     "fallback_used", "used_fallback", "confidence", "low_confidence"}

\* The keys of the result, of its breakdown and of its audit trail
ResultKeys(r) ==
    DOMAIN r \cup DOMAIN r.breakdown \cup DOMAIN r.audit_trail
        \cup DOMAIN r.audit_trail.calculation_details
        \cup DOMAIN r.audit_trail.data_characteristics

\* C18: a result whose equivalent income or reference burden came from a
\* fallback carries a provenance or reduced-confidence indication.
C18_FallbackCarriesProvenance ==
    (Called /\ ~IsError(result) /\ (IncomeFromFallback \/ BurdenFromFallback)) =>
        ResultKeys(result) \cap ProvenanceKeys # {}

(***************************************************************************)
(* Properties of the guarded divisions, under SpecGuards.                  *)
(***************************************************************************)
GuardsComputed == guard_outputs # NoGuardOutputs

\* C19: an equivalent income <= 0 gives the applicant burden 0, a reference
\* burden <= 0 gives the burden ratio 1.0, no quotient has a zero divisor and
\* the score is one of the four bucket scores; a record whose equivalent
\* income is <= 0 is scored by forward without error, with burden ratio 0,
\* the raw burden score 50 unless the applicant is disabled, and a final
\* score from 62.5 to 100.
C19_DivisionGuards ==
    /\ GuardsComputed =>
           /\ guard_inputs.equivalent_income <= 0 =>
                  guard_outputs.applicant_burden = [num |-> 0, den |-> 1]
           /\ guard_inputs.state_median_burden <= 0 =>
                  guard_outputs.burden_ratio = [num |-> 1, den |-> 1]
           /\ guard_outputs.applicant_burden.den > 0
           /\ guard_outputs.burden_ratio.den > 0
           /\ guard_outputs.raw_burden_score \in {50, 70, 90, 100}
    /\ (Called /\ CellPresent
           /\ state_income_data[CanonicalState][applicant_data.income_bracket.s] <= 0) =>
           /\ ~IsError(result)
           /\ result.burden_ratio.num = 0
           /\ result.burden_ratio.den > 0
           /\ AutoQualified(result) \/ result.breakdown.raw_burden_score = Pts(50)
           /\ result.final_score \in 62500..Pts(100)

\* C19 witness: a reference burden of 0 gave the ratio 1.0 and the score 50,
\* and forward scored a record whose cell holds the income 0.
C19_ZeroDivisorsGuarded ==
    /\ GuardsComputed
    /\ guard_inputs.state_median_burden = 0
    /\ guard_inputs.equivalent_income > 0
    /\ guard_outputs.burden_ratio = [num |-> 1, den |-> 1]
    /\ guard_outputs.raw_burden_score = 50
    /\ Called
    /\ result.equivalent_income = 0
    /\ ~AutoQualified(result)
    /\ result.breakdown.raw_burden_score = Pts(50)

(***************************************************************************)
(* Properties of call histories, under SpecHistory.                        *)
(***************************************************************************)
\* C20: two calls of forward with the same record return the same
\* final_score, breakdown, equivalent_income, adult_equivalent, burden_ratio,
\* state_median_burden and missing_fields, whatever calls came before or
\* between them.
C20_HistoryIndependent ==
    \A i \in DOMAIN history : \A j \in DOMAIN history :
        history[i].record = history[j].record =>
            history[i].fields = history[j].fields

\* C20 witness: the same fully documented record was scored first and third,
\* with a call on a record without a state between them, so the statistics
\* differ between the two calls.
C20_SameRecordAroundAnother ==
    /\ Len(history) = 3
    /\ history[1].record = CellRecord
    /\ history[3].record = CellRecord
    /\ history[2].record.state = Absent
    /\ scoring_stats.missing_data_cases = 1
    /\ result.audit_trail.scoring_stats.total_scores_calculated = 3
    /\ history[1].fields.final_score > 0
    /\ history[3].fields.missing_fields = <<>>

(***************************************************************************)
(* Properties of concurrent calls, under SpecThreads.                      *)
(***************************************************************************)
AllReturned == \A t \in Threads : threads[t].pc = "done" /\ threads[t].result # NoResult

Outcome ==
    [scoring_stats |-> scoring_stats,
     results |-> [t \in Threads |-> threads[t].result]]

\* C21: when two concurrent calls of forward on one tool have returned,
\* their results and the tool's statistics are those of the two calls made
\* one after the other in some order.
C21_Serializable ==
    AllReturned =>
        \/ Outcome = Sequential("t1", "t2")
        \/ Outcome = Sequential("t2", "t1")

(***************************************************************************)
(* Frame of forward, under SpecHistory.  Of the reference tables only      *)
(* state_income_data is computed (by the loader); the other six are the    *)
(* literals __init__ assigns, which no statement of the class assigns or   *)
(* updates again, and are the definitions national_thresholds,             *)
(* state_median_burdens, national_median_burden, base_scores,              *)
(* bracket_to_class and state_name_mapping.                                *)
(***************************************************************************)
\* C22: no call of forward (priced by a cell, by a fallback, or failing)
\* changes state_income_data; the other reference tables are literals that
\* forward only reads.
C22_ReferenceTablesUnchanged ==
    [][state_income_data' = state_income_data]_vars

\* C22 witness: over the sample table, a call priced by a cell, a call priced
\* by the national fallback and a failing call have all been made.
C22_AllKindsOfCallsMade ==
    /\ state_income_data = SampleTable
    /\ Len(history) = 3
    /\ scoring_stats.csv_lookups_successful >= 1
    /\ scoring_stats.national_fallback_used >= 1
    /\ \E i \in DOMAIN history :
           history[i].fields.missing_fields = <<"error_occurred">>

(***************************************************************************)
(* Further properties of the comparator, under SpecCompare.                *)
(***************************************************************************)
\* compare with the formula score and the contextual score exchanged
Swapped ==
    compare([score |-> formula_result.score,
             confidence |-> rag_result.confidence],
            [score |-> rag_result.score])

\* C23: compare on (formula = a, contextual = b, c) and on (formula = b,
\* contextual = a, c) returns the same score_difference and the same
\* agreement.
C23_SwapSymmetric ==
    Compared =>
        /\ Swapped.score_difference = comparison.score_difference
        /\ Swapped.agreement = comparison.agreement

\* C23 witness: contextual 70 and formula 75 at confidence 0.85 under the
\* default thresholds, which agree with difference 5.0.
C23_SeventyAgainstSeventyFive ==
    /\ Compared
    /\ RagScore = 7000
    /\ FormulaScore = 7500
    /\ RagConfidence = 85
    /\ agreement_threshold = 500
    /\ comparison.agreement
    /\ comparison.score_difference = 500

\* Twice the arithmetic mean of the two scores, in hundredths
TwiceMean == RagScore + FormulaScore

\* C24 as stated: in the agreement branch the consensus value of the
\* recommendation is the arithmetic mean of the two scores.
C24_ConsensusIsMean ==
    (ConfidentComparison /\ comparison.agreement) =>
        /\ comparison.recommendation.form = "Consensus"
        /\ 2 * comparison.recommendation.avg_score = TwiceMean

\* C24 amended: in the agreement branch the consensus value of the
\* recommendation is the arithmetic mean of the two scores to one decimal:
\* a multiple of 0.1 at most 0.05 away from the mean.
C24_ConsensusIsMeanToOneDecimal ==
    (ConfidentComparison /\ comparison.agreement) =>
        /\ comparison.recommendation.form = "Consensus"
        /\ comparison.recommendation.avg_score % 10 = 0
        /\ Abs(2 * comparison.recommendation.avg_score - TwiceMean) <= 10

\* C24 witness: formula 75.0 and contextual 78.0 at confidence 0.85 report
\* the consensus 76.5.
C24_ConsensusOfSpecScenario ==
    /\ ConfidentComparison
    /\ FormulaScore = 7500
    /\ RagScore = 7800
    /\ RagConfidence = 85
    /\ agreement_threshold = 500
    /\ comparison.agreement
    /\ comparison.recommendation.form = "Consensus"
    /\ comparison.recommendation.avg_score = 7650

\* C25: in every result of compare on numbers, agreement is true exactly
\* when the recommendation is the consensus form, and when agreement is
\* false the recommendation is the low-confidence or the disagreement form.
C25_AgreementMatchesRecommendation ==
    (Compared /\ ~CompareRaises(rag_result, formula_result)) =>
        /\ comparison.agreement <=> comparison.recommendation.form = "Consensus"
        /\ ~comparison.agreement =>
               comparison.recommendation.form \in {"Formula Score", "Disagreement"}

(***************************************************************************)
(* Properties of the contextual analysis, under SpecRag.                   *)
(***************************************************************************)
RagAnalysed == structured_result # NoStructuredResult

\* C26: whatever the agent returned, the RagAnalysisResult has a score from
\* 0 to 100 and a confidence from 0 to 1.
C26_RagResultInRange ==
    RagAnalysed =>
        /\ structured_result.score \in 0..10000
        /\ structured_result.confidence \in 0..100

(***************************************************************************)
(* Properties of the state names, under SpecTerritories.                   *)
(***************************************************************************)
FrontendNames == {"Kuala Lumpur", "Labuan", "Putrajaya"}

\* The result of scoring the same record under the name of the reference file
ScoredUnderCanonicalName ==
    forward([applicant_data EXCEPT !.state = PyStr(CanonicalState)], scoring_stats)

\* C27: a record whose state is 'Kuala Lumpur', 'Labuan' or 'Putrajaya' gets
\* the equivalent income, the state median burden and the final score of the
\* same record with 'W.P. Kuala Lumpur', 'W.P. Labuan' or 'W.P. Putrajaya'.
C27_AliasScoresAsCanonical ==
    (Called /\ applicant_data.state.s \in FrontendNames) =>
        /\ CanonicalState = "W.P. " \o applicant_data.state.s
        /\ result.equivalent_income = ScoredUnderCanonicalName.equivalent_income
        /\ result.state_median_burden = ScoredUnderCanonicalName.state_median_burden
        /\ result.final_score = ScoredUnderCanonicalName.final_score

\* C27 witness: 'Labuan' with bracket B1 is priced by the cell of
\* 'W.P. Labuan' and compared with the median burden of 'W.P. Labuan'.
C27_LabuanPricedByTerritoryCell ==
    /\ Called
    /\ applicant_data.state = PyStr("Labuan")
    /\ applicant_data.income_bracket = PyStr("B1")
    /\ ~IsError(result)
    /\ result.equivalent_income = 2400
    /\ result.state_median_burden = 410
    /\ result.state_median_burden # national_median_burden

(***************************************************************************)
(* Properties of failures in analyze, under SpecSurface.                   *)
(***************************************************************************)
\* C28: when the result of forward carries an error key, analyze raises
\* "Scoring failed" and returns no FormulaAnalysisResult; when the tool
\* itself raises, analyze raises that same exception.
C28_FailureSurfaced ==
    /\ (Called /\ Analyzed /\ IsError(result)) =>
           analysis = Raised("Exception: Scoring failed")
    /\ (Analyzed /\ ~Called) =>
           /\ ~Returned(analysis)
           /\ analysis.raised \in ToolExceptions

\* C28 witness: a null household_size makes forward return an error result,
\* and analyze has raised on it.
C28_NullHouseholdRaises ==
    /\ Called
    /\ Analyzed
    /\ applicant_data.household_size = None
    /\ IsError(result)
    /\ result.final_score = 0
    /\ ~Returned(analysis)

(***************************************************************************)
(* Properties of the statistics, under SpecHistory.                        *)
(***************************************************************************)
\* The record has a required field absent or null
LacksRequiredField(record) ==
    \E field \in {"state", "income_bracket", "household_size", "number_of_children"} :
        record[field].k \in {"absent", "none"}

RateInUnitInterval(rate) == rate.den > 0 /\ 0 <= rate.num /\ rate.num <= rate.den

\* C29: after any sequence of forward calls from zeroed statistics,
\* total_scores_calculated is the number of calls, missing_data_cases is the
\* number of calls whose record lacked a required field,
\* csv_lookups_successful + national_fallback_used <= total_scores_calculated,
\* and each rate of get_scoring_statistics is in [0, 1].
C29_StatisticsCountCalls ==
    LET statistics == get_scoring_statistics(scoring_stats)
    IN  /\ scoring_stats.total_scores_calculated = Len(history)
        /\ scoring_stats.missing_data_cases =
               Cardinality({i \in DOMAIN history : LacksRequiredField(history[i].record)})
        /\ scoring_stats.csv_lookups_successful + scoring_stats.national_fallback_used
               <= scoring_stats.total_scores_calculated
        /\ RateInUnitInterval(statistics.csv_success_rate)
        /\ RateInUnitInterval(statistics.fallback_usage_rate)
        /\ RateInUnitInterval(statistics.missing_data_rate)

\* C29 witness: over the sample table, three calls: one priced by a cell,
\* one that lacks the state and is priced by the national fallback, and one
\* that fails on a null household size.
C29_ThreeKindsCounted ==
    /\ state_income_data = SampleTable
    /\ Len(history) = 3
    /\ history[1].record = CellRecord
    /\ history[2].record.state = Absent
    /\ history[3].record.household_size = None
    /\ history[3].fields.missing_fields = <<"error_occurred">>
    /\ scoring_stats =
           [total_scores_calculated |-> 3, csv_lookups_successful |-> 2,
            national_fallback_used |-> 1, missing_data_cases |-> 2]

(***************************************************************************)
(* Properties of the eligibility workflow, under SpecWorkflow.             *)
(***************************************************************************)
RetrievalErrors == {"PDF retrieval error", "Web search error"}

NodesRun == {flow.executed[i] : i \in DOMAIN flow.executed}

\* C30: with an error recorded by a retrieval node the scoring node does not
\* run and process_citizen returns the zero-score error result; when the
\* run has ended, exactly one of scoring and error_handler has run.
C30_RetrievalErrorSkipsScoring ==
    /\ flow.error \in RetrievalErrors =>
           /\ flow.node # "scoring"
           /\ "scoring" \notin NodesRun
           /\ returned # NoReturn =>
                  /\ returned.eligibility_score = 0
                  /\ returned.reasoning = "Workflow error"
    /\ flow.node = "END" =>
           ("scoring" \in NodesRun) # ("error_handler" \in NodesRun)

====
